---- MODULE Spec2Model ----
(***************************************************************************)
(* Real-time chat subsystem of the legal-services marketplace:             *)
(*   - the Socket.io gateway (initializeSocket): join_chat, leave_chat,    *)
(*     send_message, mark_messages_read and their awaited store calls;     *)
(*   - the REST direct-message request (sendDirectMessageRequest);         *)
(*   - the ChatPage client controller (optimistic send, reconciliation).   *)
(* Every async handler is split at its awaits: the synchronous prefix runs *)
(* when the event is emitted, each later step resumes one awaited call.    *)
(***************************************************************************)
EXTENDS Naturals, Sequences, FiniteSets, TLC

\* ------------------------------------------------------------------ bounds
\* Client events the gateway accepts in one behaviour.
MaxEmits == 2
\* Clock ticks in one behaviour.
MaxTime == 2
\* send_message events in one behaviour of the rate-limiter scenario.
MaxRateSends == 4
\* Direct-chat creation requests in one behaviour.
MaxDmRequests == 3
\* send_message events in one behaviour of the ordering scenario.
MaxOrderSends == 3
\* Handshakes and client events in one behaviour of the handshake scenario.
MaxAuthEvents == 4
\* Client events in one behaviour of the typing scenario.
MaxTypingEvents == 3
\* Client events and disconnects in one behaviour of the membership scenario.
MaxPresenceEvents == 3
\* Messages the ChatPage user submits in one behaviour.
MaxClientSends == 2
\* REST requests and client events in one behaviour of the acceptance scenario.
MaxAcceptEvents == 3
\* Client events in one behaviour of the reassignment scenario.
MaxRevokeEvents == 3
\* Message requests in one behaviour of the limiter scenario.
MaxLimitRequests == 4
\* Client events and disconnects in one behaviour of the confinement scenario.
MaxLeakEvents == 3
\* Messages broadcast to the page in one behaviour of the history scenario.
MaxHistoryPushes == 2
\* Runs of the page's join/leave effect in one behaviour of the mount scenario.
MaxEffectRuns == 4
\* Submits and pushed events in one behaviour of the timer scenario.
MaxTimerSends == 2
MaxTimerPushes == 2
\* Events an arbitrary server pushes to the ChatPage in one behaviour.
MaxPushes == 3

\* ------------------------------------------------------- scenario and values
\* User ids; 2 is a citizen, 1 and 3 are verified lawyers.
Users == {1, 2, 3}

roleOf(u) == IF u = 2 THEN "citizen" ELSE "lawyer"

\* One accepted connection per user (socket.id).
Conns == {"s1", "s2", "s3"}

\* socket.userId, set by the authentication middleware.
userOf(c) == CASE c = "s1" -> 2 [] c = "s2" -> 1 [] OTHER -> 3

\* Channel names are triples: a case chat, a direct chat, a personal channel.
CaseChat(n) == <<"case", n, 0>>

PersonalChannel(u) == <<"user", u, 0>>

NoChat == <<"none", 0, 0>>

R1 == CaseChat(1)

R2 == CaseChat(2)

\* A field a payload does not carry (JavaScript undefined).
Undefined == "undefined"

\* A message text: leading whitespace, a core that neither starts nor ends
\* with whitespace, trailing whitespace; given = FALSE is a missing content.
Content(given, lead, core, trail) ==
    [given |-> given, lead |-> lead, core |-> core, trail |-> trail]

NoContent == Content(FALSE, 0, 0, 0)

Hello == Content(TRUE, 0, 5, 0)

\* content.length
Length(s) == s.lead + s.core + s.trail

\* content.trim()
Trim(s) == IF s.core = 0 THEN Content(s.given, 0, 0, 0)
           ELSE Content(s.given, 0, s.core, 0)

\* ---------------------------------------------------------------- variables
VARIABLES
    activeUsers,      \* socket ids registered in the activeUsers map
    socketRooms,      \* socket id -> channels the socket has joined (socket.join)
    activeChatRooms,  \* chatId -> set of socket ids (entries exist only while set)
    tasks,            \* handler invocations suspended at an await
    inbox,            \* socket id -> events emitted to it, in emission order
    reqs,             \* client events accepted so far, in arrival order
    failed,           \* <<client event, await>> of the handlers that ran their catch block
    chats,            \* the Chat collection: a sequence of chat documents
    nextMsgId,        \* next message _id the store assigns
    rateWindow,       \* user id -> timestamps of the sends the limiter recorded
    now,              \* the clock
    messageRequests,  \* user id -> the user's messageRequests array
    httpLog,          \* REST responses, in completion order
    calls,            \* REST requests suspended at an await
    messages,         \* ChatPage: the local message list
    isSending,        \* ChatPage: the isSending flag
    timers,           \* ChatPage: pending 5-second timers
    sent,             \* ChatPage: send_message events emitted by the client
    seen,             \* ChatPage: how many events of its socket it has handled
    loading,          \* ChatPage: the loading flag
    pageConnected,    \* ChatPage: isConnected of useSocket()
    pageEmits,        \* ChatPage: join_chat / leave_chat events the page has emitted
    chains            \* ChatPage: stage of the promise chain of each effect run

gatewayVars ==
    <<activeUsers, socketRooms, activeChatRooms, tasks, inbox, reqs, failed>>

storeVars == <<chats, nextMsgId, messageRequests>>

limiterVars == <<rateWindow, now>>

restVars == <<httpLog, calls>>

setupVars == <<loading, pageConnected, pageEmits, chains>>

clientVars == <<messages, isSending, timers, sent, seen, setupVars>>

vars == <<gatewayVars, storeVars, limiterVars, restVars, clientVars>>

\* -------------------------------------------------------------------- store
\* A persisted message. req is the number of the client event that stored it,
\* 0 for a message stored over REST (bookkeeping of the model).
Msg(id, sender, content, req) ==
    [id |-> id, sender |-> sender, content |-> content, isRead |-> FALSE,
     req |-> req]

\* A chat document.
ChatDoc(chatId, participants, chatType, status) ==
    [chatId |-> chatId, participants |-> participants, chatType |-> chatType,
     status |-> status, messages |-> <<>>, lastMessage |-> 0]

\* Chat.findOne({ chatId }): the index of the first matching document, 0 if none.
FindOne(chatId) ==
    IF \E i \in 1..Len(chats) : chats[i].chatId = chatId
    THEN CHOOSE i \in 1..Len(chats) :
            /\ chats[i].chatId = chatId
            /\ \A j \in 1..(i - 1) : chats[j].chatId # chatId
    ELSE 0

\* Access Control Guard: the room exists and the user is one of its participants.
validateChatAccess(chatId, userId) ==
    /\ FindOne(chatId) # 0
    /\ userId \in chats[FindOne(chatId)].participants

\* appendMessage: the chat collection after the message is stored.
saveMessageToDatabase(chatId, userId, content, req) ==
    [chats EXCEPT ![FindOne(chatId)] =
        [@ EXCEPT !.messages = Append(@, Msg(nextMsgId, userId, content, req)),
                  !.lastMessage = nextMsgId]]

\* chat.markAsRead(userId): the ids of the messages it flags, those of the
\* other participants that are still unread.
markAsRead(chatId, userId) ==
    IF FindOne(chatId) = 0 THEN {}
    ELSE LET ms == chats[FindOne(chatId)].messages
         IN {ms[i].id : i \in {j \in 1..Len(ms) :
                                  ms[j].sender # userId /\ ~ms[j].isRead}}

\* chat.save() after markAsRead: the flagged messages are stored as read.
SaveRead(chatId, ids) ==
    IF FindOne(chatId) = 0 THEN chats
    ELSE [chats EXCEPT ![FindOne(chatId)] =
            [@ EXCEPT !.messages =
                [i \in 1..Len(@) |->
                    IF @[i].id \in ids THEN [@[i] EXCEPT !.isRead = TRUE]
                    ELSE @[i]]]]

\* ------------------------------------------------------------- rate limiter
\* Sends allowed per window, and the window length in ticks.
RateLimitN == 2

RateWindowW == 2

\* The recorded sends of a user that are still inside the window.
Recent(userId) == SelectSeq(rateWindow[userId], LAMBDA t : now - t < RateWindowW)

\* checkMessageRateLimit(userId): TRUE iff the send is allowed.
checkMessageRateLimit(userId) == Len(Recent(userId)) < RateLimitN

\* The limiter's state after an allowed send: pruned, with the send recorded.
RecordSend(userId) ==
    [rateWindow EXCEPT ![userId] = Append(Recent(userId), now)]

\* ------------------------------------------------------------------ gateway
\* The longest content send_message accepts.
MaxMessageLength == 1000

\* savedMessage.timestamp: the time the store gave the message with this _id;
\* events that carry no message have none.
SavedStamp(id) == IF id = 0 THEN <<"none", 0>> ELSE <<"saved", id>>

\* An event as a connection receives it. req is the number of the client event
\* that caused it (bookkeeping of the model, not part of the payload).
Ev(type, chatId, msgId, tempId, sender, content, text, req) ==
    [type |-> type, chatId |-> chatId, msgId |-> msgId, tempId |-> tempId,
     sender |-> sender, content |-> content, text |-> text, req |-> req,
     timestamp |-> SavedStamp(msgId)]

\* socket.emit("error", { message })
ErrorEv(text, req) == Ev("error", NoChat, 0, Undefined, 0, NoContent, text, req)

\* A suspended handler invocation: seq is the number of its client event, pc
\* the await it is suspended at, ids the messages markAsRead flagged.
Task(seq, kind, conn, chatId, content, tempId, pc) ==
    [seq |-> seq, kind |-> kind, conn |-> conn, chatId |-> chatId,
     content |-> content, tempId |-> tempId, pc |-> pc, ids |-> {}]

\* A client event as the gateway accepted it, with its time of arrival.
Req(conn, kind, chatId, content, tempId) ==
    [conn |-> conn, kind |-> kind, chatId |-> chatId, content |-> content,
     tempId |-> tempId, at |-> now]

\* Emission of ev to every socket of targets; a packet for a socket that has
\* disconnected is dropped.
Deliver(box, targets, ev) ==
    [c \in Conns |->
        IF c \in targets /\ c \in activeUsers THEN Append(box[c], ev) ELSE box[c]]

\* io.to(channel): the sockets joined to the channel.
InChannel(channel) == {c \in Conns : channel \in socketRooms[c]}

\* A relay that reaches the emitting socket as well: io.to(channel).
OthersInChannel_IncludingSelf(c, channel) == InChannel(channel)

\* socket.to(channel): the sockets joined to the channel, except the socket.
OthersInChannel(c, channel) == InChannel(channel) \ {c}

\* activeChatRooms after activeChatRooms.get(chatId).add(socket.id), the set
\* being created when the map has none.
AddActive(c, chatId) ==
    [k \in DOMAIN activeChatRooms \cup {chatId} |->
        IF k = chatId
        THEN (IF k \in DOMAIN activeChatRooms THEN activeChatRooms[k] ELSE {})
             \cup {c}
        ELSE activeChatRooms[k]]

\* A variant of the leave_chat cleanup that keeps a set that became empty.
RemoveActive_KeepEmpty(c, chatId) ==
    IF chatId \notin DOMAIN activeChatRooms THEN activeChatRooms
    ELSE [activeChatRooms EXCEPT ![chatId] = @ \ {c}]

\* activeChatRooms after the socket id is deleted from the chat's set, the
\* set being dropped when it becomes empty.
RemoveActive(c, chatId) ==
    IF chatId \notin DOMAIN activeChatRooms THEN activeChatRooms
    ELSE IF activeChatRooms[chatId] \ {c} = {}
         THEN [k \in DOMAIN activeChatRooms \ {chatId} |-> activeChatRooms[k]]
         ELSE [activeChatRooms EXCEPT ![chatId] = @ \ {c}]

\* The next step of a suspended task.
Resume(t, pc) == (tasks \ {t}) \cup {[t EXCEPT !.pc = pc]}

\* ---- join_chat
\* The handler up to its first await, the call of validateChatAccess.
EmitJoin(c, chatId) ==
    /\ c \in activeUsers
    /\ reqs' = Append(reqs, Req(c, "join_chat", chatId, NoContent, Undefined))
    /\ tasks' = tasks \cup
          {Task(Len(reqs) + 1, "join_chat", c, chatId, NoContent, Undefined, "access")}
    /\ UNCHANGED <<activeUsers, socketRooms, activeChatRooms, inbox, failed>>
    /\ UNCHANGED <<storeVars, limiterVars, restVars, clientVars>>

\* join_chat without its access guard.
JoinHasAccess_Always(t) == TRUE

\* An access guard of join_chat that only asks whether the chat is stored.
JoinHasAccess_AnyStoredChat(t) == FindOne(t.chatId) # 0

\* The access guard of join_chat.
JoinHasAccess(t) == validateChatAccess(t.chatId, userOf(t.conn))

\* validateChatAccess resolved: denied, or socket.join and the registry entry.
JoinAccessDone(t) ==
    /\ t \in tasks /\ t.kind = "join_chat" /\ t.pc = "access"
    /\ IF ~JoinHasAccess(t)
       THEN /\ inbox' = Deliver(inbox, {t.conn},
                                ErrorEv("Access denied to chat room", t.seq))
            /\ tasks' = tasks \ {t}
            /\ UNCHANGED <<socketRooms, activeChatRooms>>
       ELSE /\ socketRooms' = [socketRooms EXCEPT ![t.conn] = @ \cup {t.chatId}]
            /\ activeChatRooms' = AddActive(t.conn, t.chatId)
            /\ tasks' = Resume(t, "find")
            /\ UNCHANGED inbox
    /\ UNCHANGED <<activeUsers, reqs, failed>>
    /\ UNCHANGED <<storeVars, limiterVars, restVars, clientVars>>

\* Chat.findOne resolved: markAsRead on the loaded document, then chat.save().
JoinFindDone(t) ==
    /\ t \in tasks /\ t.kind = "join_chat" /\ t.pc = "find"
    /\ IF FindOne(t.chatId) # 0
       THEN /\ tasks' = (tasks \ {t}) \cup
                  {[t EXCEPT !.pc = "save",
                             !.ids = markAsRead(t.chatId, userOf(t.conn))]}
            /\ UNCHANGED inbox
       ELSE /\ inbox' = Deliver(inbox, {t.conn},
                  Ev("chat_joined", t.chatId, 0, Undefined, 0, NoContent, "", t.seq))
            /\ tasks' = tasks \ {t}
    /\ UNCHANGED <<activeUsers, socketRooms, activeChatRooms, reqs, failed>>
    /\ UNCHANGED <<storeVars, limiterVars, restVars, clientVars>>

\* chat.save() resolved: messages_read to the others, chat_joined to the caller.
JoinSaveDone(t) ==
    /\ t \in tasks /\ t.kind = "join_chat" /\ t.pc = "save"
    /\ chats' = SaveRead(t.chatId, t.ids)
    /\ inbox' = Deliver(
          Deliver(inbox, OthersInChannel(t.conn, t.chatId),
                  Ev("messages_read", t.chatId, 0, Undefined, userOf(t.conn),
                     NoContent, "", t.seq)),
          {t.conn},
          Ev("chat_joined", t.chatId, 0, Undefined, 0, NoContent, "", t.seq))
    /\ tasks' = tasks \ {t}
    /\ UNCHANGED <<activeUsers, socketRooms, activeChatRooms, reqs, failed>>
    /\ UNCHANGED <<nextMsgId, messageRequests>>
    /\ UNCHANGED <<limiterVars, restVars, clientVars>>

\* ---- leave_chat
EmitLeave(c, chatId) ==
    /\ c \in activeUsers
    /\ reqs' = Append(reqs, Req(c, "leave_chat", chatId, NoContent, Undefined))
    /\ socketRooms' = [socketRooms EXCEPT ![c] = @ \ {chatId}]
    /\ activeChatRooms' = RemoveActive(c, chatId)
    /\ UNCHANGED <<activeUsers, tasks, inbox, failed>>
    /\ UNCHANGED <<storeVars, limiterVars, restVars, clientVars>>

\* ---- send_message
\* Content checks that refuse a content of exactly the maximum length.
ValidationError_OffByOne(content) ==
    IF ~content.given \/ Length(Trim(content)) = 0
    THEN "Message content cannot be empty"
    ELSE IF Length(content) >= MaxMessageLength
         THEN "Message too long. Maximum 1000 characters."
         ELSE ""

\* The content checks: the text of the error, "" when the content passes.
ValidationError(content) ==
    IF ~content.given \/ Length(Trim(content)) = 0
    THEN "Message content cannot be empty"
    ELSE IF Length(content) > MaxMessageLength
         THEN "Message too long. Maximum 1000 characters."
         ELSE ""

\* A limiter asked about the chat (its number) instead of the sender.
RateKey_PerChat(c, chatId) == chatId[2]

\* The identity the rate limiter is asked about.
RateKey(c, chatId) == userOf(c)

\* The handler up to its first await: content checks, rate limiter, then the
\* call of validateChatAccess.
SendReceived(c, chatId, content, tempId) ==
    /\ c \in activeUsers
    /\ reqs' = Append(reqs, Req(c, "send_message", chatId, content, tempId))
    /\ IF ValidationError(content) # ""
       THEN /\ inbox' = Deliver(inbox, {c},
                                ErrorEv(ValidationError(content), Len(reqs) + 1))
            /\ UNCHANGED <<tasks, rateWindow>>
       ELSE IF ~checkMessageRateLimit(RateKey(c, chatId))
            THEN /\ inbox' = Deliver(inbox, {c},
                        ErrorEv("Message rate limit exceeded. Please slow down.",
                                Len(reqs) + 1))
                 /\ UNCHANGED <<tasks, rateWindow>>
            ELSE /\ rateWindow' = RecordSend(RateKey(c, chatId))
                 /\ tasks' = tasks \cup
                       {Task(Len(reqs) + 1, "send_message", c, chatId, content,
                             tempId, "access")}
                 /\ UNCHANGED inbox
    /\ UNCHANGED <<activeUsers, socketRooms, activeChatRooms, now, failed>>
    /\ UNCHANGED <<storeVars, restVars>>

\* A send_message event from a client whose page is not part of the scenario.
EmitSend(c, chatId, content, tempId) ==
    /\ SendReceived(c, chatId, content, tempId)
    /\ UNCHANGED clientVars

\* The access guard of send_message.
SendHasAccess(t) == validateChatAccess(t.chatId, userOf(t.conn))

\* validateChatAccess resolved: denied, or the call of saveMessageToDatabase.
SendAccessDone(t) ==
    /\ t \in tasks /\ t.kind = "send_message" /\ t.pc = "access"
    /\ IF ~SendHasAccess(t)
       THEN /\ inbox' = Deliver(inbox, {t.conn},
                                ErrorEv("Chat not found or access denied", t.seq))
            /\ tasks' = tasks \ {t}
       ELSE /\ tasks' = Resume(t, "save")
            /\ UNCHANGED inbox
    /\ UNCHANGED <<activeUsers, socketRooms, activeChatRooms, reqs, failed>>
    /\ UNCHANGED <<storeVars, limiterVars, restVars, clientVars>>

\* messageToSend, the payload of new_message.
NewMessagePayload(t, id) ==
    Ev("new_message", t.chatId, id, Undefined, userOf(t.conn), t.content, "", t.seq)

\* The payload of message_sent.
MessageSentPayload(t, id) ==
    Ev("message_sent", NoChat, id, Undefined, 0, NoContent, "", t.seq)

\* The sockets new_message is emitted to: io.to(chatId).
NewMessageTargets(t) == InChannel(t.chatId)

\* A handler that confirms to nobody.
MessageSentTargets_Nobody(t) == {}

\* The sockets message_sent is emitted to: socket.emit.
MessageSentTargets(t) == {t.conn}

\* saveMessageToDatabase resolved: the message is stored, then new_message to
\* the room and message_sent to the sender.
SendSaveDone(t) ==
    /\ t \in tasks /\ t.kind = "send_message" /\ t.pc = "save"
    /\ FindOne(t.chatId) # 0
    /\ chats' = saveMessageToDatabase(t.chatId, userOf(t.conn), t.content, t.seq)
    /\ nextMsgId' = nextMsgId + 1
    /\ inbox' = Deliver(
          Deliver(inbox, NewMessageTargets(t), NewMessagePayload(t, nextMsgId)),
          MessageSentTargets(t), MessageSentPayload(t, nextMsgId))
    /\ tasks' = tasks \ {t}
    /\ UNCHANGED <<activeUsers, socketRooms, activeChatRooms, reqs, failed>>
    /\ UNCHANGED messageRequests
    /\ UNCHANGED <<limiterVars, restVars, clientVars>>

\* ---- mark_messages_read
\* The handler up to its first await, the call of validateChatAccess.
EmitMarkRead(c, chatId) ==
    /\ c \in activeUsers
    /\ reqs' = Append(reqs, Req(c, "mark_messages_read", chatId, NoContent, Undefined))
    /\ tasks' = tasks \cup
          {Task(Len(reqs) + 1, "mark_messages_read", c, chatId, NoContent,
                Undefined, "access")}
    /\ UNCHANGED <<activeUsers, socketRooms, activeChatRooms, inbox, failed>>
    /\ UNCHANGED <<storeVars, limiterVars, restVars, clientVars>>

\* mark_messages_read without its access guard.
MarkHasAccess_Always(t) == TRUE

\* The access guard of mark_messages_read.
MarkHasAccess(t) == validateChatAccess(t.chatId, userOf(t.conn))

\* A denied mark_messages_read that reports the denial to its caller.
MarkDeniedInbox_Error(t) ==
    Deliver(inbox, {t.conn}, ErrorEv("Access denied to chat room", t.seq))

\* What a denied mark_messages_read emits to its caller: nothing, the handler
\* returns.
MarkDeniedInbox(t) == inbox

\* validateChatAccess resolved: denied (the handler returns), or Chat.findOne.
MarkAccessDone(t) ==
    /\ t \in tasks /\ t.kind = "mark_messages_read" /\ t.pc = "access"
    /\ IF ~MarkHasAccess(t)
       THEN /\ inbox' = MarkDeniedInbox(t)
            /\ tasks' = tasks \ {t}
       ELSE /\ tasks' = Resume(t, "find")
            /\ UNCHANGED inbox
    /\ UNCHANGED <<activeUsers, socketRooms, activeChatRooms, reqs, failed>>
    /\ UNCHANGED <<storeVars, limiterVars, restVars, clientVars>>

\* Chat.findOne resolved: markAsRead on the loaded document, then chat.save().
MarkFindDone(t) ==
    /\ t \in tasks /\ t.kind = "mark_messages_read" /\ t.pc = "find"
    /\ IF FindOne(t.chatId) # 0
       THEN tasks' = (tasks \ {t}) \cup
               {[t EXCEPT !.pc = "save",
                          !.ids = markAsRead(t.chatId, userOf(t.conn))]}
       ELSE tasks' = tasks \ {t}
    /\ UNCHANGED <<activeUsers, socketRooms, activeChatRooms, inbox, reqs, failed>>
    /\ UNCHANGED <<storeVars, limiterVars, restVars, clientVars>>

\* chat.save() resolved: messages_read to the other sockets of the room.
MarkSaveDone(t) ==
    /\ t \in tasks /\ t.kind = "mark_messages_read" /\ t.pc = "save"
    /\ chats' = SaveRead(t.chatId, t.ids)
    /\ inbox' = Deliver(inbox, OthersInChannel(t.conn, t.chatId),
                        Ev("messages_read", t.chatId, 0, Undefined,
                           userOf(t.conn), NoContent, "", t.seq))
    /\ tasks' = tasks \ {t}
    /\ UNCHANGED <<activeUsers, socketRooms, activeChatRooms, reqs, failed>>
    /\ UNCHANGED <<nextMsgId, messageRequests>>
    /\ UNCHANGED <<limiterVars, restVars, clientVars>>

\* Catch blocks that only log, as the one of mark_messages_read does.
CatchText_LogOnly(kind) == ""

\* ---- typing_start, typing_stop
\* Both relays named user_typing.
TypingEvent_SameName(kind) == "user_typing"

\* The event a typing event is relayed as.
TypingEvent(kind) ==
    IF kind = "typing_start" THEN "user_typing" ELSE "user_stop_typing"

\* The whole handler: socket.to(chatId).emit of the relay, naming the user.
EmitTyping(c, kind, chatId) ==
    /\ c \in activeUsers
    /\ reqs' = Append(reqs, Req(c, kind, chatId, NoContent, Undefined))
    /\ inbox' = Deliver(inbox, OthersInChannel(c, chatId),
                        Ev(TypingEvent(kind), NoChat, 0, Undefined, userOf(c),
                           NoContent, "", Len(reqs) + 1))
    /\ UNCHANGED <<activeUsers, socketRooms, activeChatRooms, tasks, failed>>
    /\ UNCHANGED <<storeVars, limiterVars, restVars, clientVars>>

\* ---- disconnect
\* activeChatRooms after the forEach of the disconnect handler: the socket id
\* is deleted from every set and the empty sets are dropped.
RemoveEverywhere(c) ==
    [k \in {r \in DOMAIN activeChatRooms : activeChatRooms[r] \ {c} # {}} |->
        activeChatRooms[k] \ {c}]

\* The socket closes: it leaves all its rooms, then the disconnect handler
\* runs. Handlers of the socket that are suspended at an await stay suspended.
Disconnect(c) ==
    /\ c \in activeUsers
    /\ reqs' = Append(reqs, Req(c, "disconnect", NoChat, NoContent, Undefined))
    /\ socketRooms' = [socketRooms EXCEPT ![c] = {}]
    /\ activeUsers' = activeUsers \ {c}
    /\ activeChatRooms' = RemoveEverywhere(c)
    /\ inbox' = Deliver(inbox, activeUsers \ {c},
                        Ev("user_status_update", NoChat, 0, Undefined, userOf(c),
                           NoContent, "offline", Len(reqs) + 1))
    /\ UNCHANGED <<tasks, failed>>
    /\ UNCHANGED <<storeVars, limiterVars, restVars, clientVars>>

\* ---- a rejected store call
\* The text a handler's catch block emits, "" when it only logs.
CatchText(kind) ==
    CASE kind = "join_chat" -> "Failed to join chat"
      [] kind = "send_message" -> "Failed to send message"
      [] kind = "direct_message_request" -> "Failed to send direct message request"
      [] OTHER -> ""

\* A catch block that reports the failure to the whole room.
StoreError_Broadcast(t) ==
    /\ t \in tasks
    /\ inbox' = IF CatchText(t.kind) = "" THEN inbox
                ELSE Deliver(inbox, InChannel(t.chatId) \cup {t.conn},
                             ErrorEv(CatchText(t.kind), t.seq))
    /\ tasks' = tasks \ {t}
    /\ failed' = failed \cup {<<t.seq, t.pc>>}
    /\ UNCHANGED <<activeUsers, socketRooms, activeChatRooms, reqs>>
    /\ UNCHANGED <<storeVars, limiterVars, restVars, clientVars>>

\* An awaited store call rejects: the handler's catch block runs.
StoreError(t) ==
    /\ t \in tasks
    /\ inbox' = IF CatchText(t.kind) = "" THEN inbox
                ELSE Deliver(inbox, {t.conn}, ErrorEv(CatchText(t.kind), t.seq))
    /\ tasks' = tasks \ {t}
    /\ failed' = failed \cup {<<t.seq, t.pc>>}
    /\ UNCHANGED <<activeUsers, socketRooms, activeChatRooms, reqs>>
    /\ UNCHANGED <<storeVars, limiterVars, restVars, clientVars>>

\* ---- the clock
Tick ==
    /\ now < MaxTime
    /\ now' = now + 1
    /\ UNCHANGED rateWindow
    /\ UNCHANGED <<gatewayVars, storeVars, restVars, clientVars>>

\* ------------------------------------------------------- gateway specification
\* The chats of the scenario: case chat R1 of users 2 and 1, R2 of 2 and 3.
InitChats ==
    <<ChatDoc(R1, {2, 1}, "case", "active"), ChatDoc(R2, {2, 3}, "case", "active")>>

\* The state once the three connections are accepted: each is registered and
\* joined to its personal channel.
InitGateway ==
    /\ activeUsers = Conns
    /\ socketRooms = [c \in Conns |-> {PersonalChannel(userOf(c))}]
    /\ activeChatRooms = [k \in {} |-> {}]
    /\ tasks = {}
    /\ inbox = [c \in Conns |-> <<>>]
    /\ reqs = <<>>
    /\ failed = {}

InitStore ==
    /\ chats = InitChats
    /\ nextMsgId = 1
    /\ messageRequests = [u \in Users |-> <<>>]

InitLimiter ==
    /\ rateWindow = [u \in Users |-> <<>>]
    /\ now = 0

InitRest == httpLog = <<>> /\ calls = {}

\* The page's own state right after useState.
InitPage ==
    /\ messages = <<>>
    /\ isSending = FALSE
    /\ timers = {}
    /\ sent = <<>>
    /\ seen = 0

\* The page once it has mounted with a connected socket, joined its chat and
\* fetched an empty history.
InitClient ==
    /\ InitPage
    /\ loading = FALSE
    /\ pageConnected = TRUE
    /\ pageEmits = <<[kind |-> "join_chat", chatId |-> <<"direct", 1, 2>>]>>
    /\ chains = <<"done">>

Init == InitGateway /\ InitStore /\ InitLimiter /\ InitRest /\ InitClient

\* The contents the gateway scenario sends: a valid one and a blank one.
Blank == Content(TRUE, 1, 0, 1)

\* Client events of the gateway scenario: any connection, either chat.
GwJoin == Len(reqs) < MaxEmits /\ \E c \in Conns, k \in {R1, R2} : EmitJoin(c, k)

GwLeave == Len(reqs) < MaxEmits /\ \E c \in Conns, k \in {R1, R2} : EmitLeave(c, k)

GwMarkRead ==
    Len(reqs) < MaxEmits /\ \E c \in Conns, k \in {R1, R2} : EmitMarkRead(c, k)

GwSend ==
    /\ Len(reqs) < MaxEmits
    /\ \E c \in Conns, k \in {R1, R2}, content \in {Hello, Blank} :
          EmitSend(c, k, content, "t1")

\* The resumption of a suspended handler.
TaskStep ==
    \/ \E t \in tasks : JoinAccessDone(t)
    \/ \E t \in tasks : JoinFindDone(t)
    \/ \E t \in tasks : JoinSaveDone(t)
    \/ \E t \in tasks : SendAccessDone(t)
    \/ \E t \in tasks : SendSaveDone(t)
    \/ \E t \in tasks : MarkAccessDone(t)
    \/ \E t \in tasks : MarkFindDone(t)
    \/ \E t \in tasks : MarkSaveDone(t)
    \/ \E t \in tasks : StoreError(t)

Next ==
    \/ GwJoin
    \/ GwLeave
    \/ GwMarkRead
    \/ GwSend
    \/ TaskStep

Spec == Init /\ [][Next]_vars

\* ---------------------------------------------- content-validation scenario
\* Contents around the checks: missing, empty, blank, ordinary, of exactly
\* the maximum length (with and without padding), one longer, and one that is
\* too long only because of its padding.
AllContents ==
    {NoContent, Content(TRUE, 0, 0, 0), Blank, Hello,
     Content(TRUE, 0, MaxMessageLength, 0),
     Content(TRUE, 1, MaxMessageLength - 2, 1),
     Content(TRUE, 0, MaxMessageLength + 1, 0),
     Content(TRUE, 1, MaxMessageLength - 1, 1)}

\* The two participants of R1 join it and send any content to it.
VlJoin == Len(reqs) < MaxEmits /\ \E c \in {"s1", "s2"} : EmitJoin(c, R1)

VlSend ==
    /\ Len(reqs) < MaxEmits
    /\ \E c \in {"s1", "s2"}, content \in AllContents : EmitSend(c, R1, content, "t1")

NextValidate ==
    \/ VlJoin
    \/ VlSend
    \/ \E t \in tasks : JoinAccessDone(t)
    \/ \E t \in tasks : JoinFindDone(t)
    \/ \E t \in tasks : JoinSaveDone(t)
    \/ \E t \in tasks : SendAccessDone(t)
    \/ \E t \in tasks : SendSaveDone(t)
    \/ \E t \in tasks : StoreError(t)

SpecValidate == Init /\ [][NextValidate]_vars

\* -------------------------------------------------------- rate-limiter scenario
\* User 2 sends to either of its chats while time passes; user 1 may send
\* once, before any other event.
RtSend ==
    /\ Len(reqs) < MaxRateSends
    /\ \E k \in {R1, R2} : EmitSend("s1", k, Hello, "t1")

RtOtherSend == reqs = <<>> /\ EmitSend("s2", R1, Hello, "t1")

NextRate ==
    \/ RtSend
    \/ RtOtherSend
    \/ Tick
    \/ \E t \in tasks : SendAccessDone(t)
    \/ \E t \in tasks : SendSaveDone(t)

SpecRate == Init /\ [][NextRate]_vars

\* ------------------------------------------------- direct message requests
\* One hour, in ticks of the clock (a tick is half an hour).
HourTicks == 2

\* Message requests a citizen may send to one lawyer within an hour.
MessageRequestLimit == 2

\* The smaller and the larger of two user ids.
Lo(x, y) == IF x <= y THEN x ELSE y

Hi(x, y) == IF x <= y THEN y ELSE x

\* A room key built from the pair in the order it is given.
DirectChatId_Unsorted(x, y) == <<"direct", x, y>>

\* `direct_${[x, y].sort().join("_")}`: the key of the direct chat of two users.
DirectChatId(x, y) == <<"direct", Lo(x, y), Hi(x, y)>>

\* A limit check that counts the requests to every lawyer together.
canSendMessageRequest_AnyLawyer(loaded, toUserId) ==
    Len(SelectSeq(loaded, LAMBDA r : r.timestamp + HourTicks > now)) < MessageRequestLimit

\* user.canSendMessageRequest(toUserId) on a loaded messageRequests array.
canSendMessageRequest(loaded, toUserId) ==
    Len(SelectSeq(loaded, LAMBDA r : r.toUserId = toUserId /\ r.timestamp + HourTicks > now))
        < MessageRequestLimit

\* user.addMessageRequest(toUserId) on a loaded messageRequests array.
addMessageRequest(loaded, toUserId) ==
    SelectSeq(Append(loaded, [toUserId |-> toUserId, timestamp |-> now]),
              LAMBDA r : r.timestamp + HourTicks > now)

\* The Chat collection takes a new document only under a chatId it does not hold.
CanCreate(chatId) == FindOne(chatId) = 0

\* A suspended sendDirectMessageRequest: n numbers the request, loaded is the
\* messageRequests array of the citizen document it holds, existed tells whether
\* the direct chat of the pair was stored when the request arrived (bookkeeping
\* of the model).
Call(n, user, lawyerId, pc) ==
    [n |-> n, user |-> user, lawyerId |-> lawyerId, pc |-> pc, loaded |-> <<>>,
     existed |-> FindOne(DirectChatId(user, lawyerId)) # 0]

\* res.status(status).json(...) of a request.
Respond(k, status, chatId) ==
    Append(httpLog, [n |-> k.n, user |-> k.user, lawyerId |-> k.lawyerId,
                     status |-> status, chatId |-> chatId, existed |-> k.existed])

\* The requests received so far, REST and socket together.
DmCount == Len(httpLog) + Cardinality(calls)

\* POST /message-request/:lawyerId by an authenticated citizen, up to the first
\* await, User.findOne of the lawyer.
HttpDmRequest(u, l) ==
    /\ roleOf(u) = "citizen"
    /\ calls' = calls \cup {Call(DmCount + 1, u, l, "findLawyer")}
    /\ UNCHANGED httpLog
    /\ UNCHANGED <<gatewayVars, storeVars, limiterVars, clientVars>>

\* User.findOne resolved: 404 unless the id is a verified, active lawyer; else
\* User.findById of the citizen.
DmFindLawyerDone(k) ==
    /\ k \in calls /\ k.pc = "findLawyer"
    /\ IF roleOf(k.lawyerId) # "lawyer"
       THEN /\ httpLog' = Respond(k, 404, NoChat)
            /\ calls' = calls \ {k}
       ELSE /\ calls' = (calls \ {k}) \cup {[k EXCEPT !.pc = "findCitizen"]}
            /\ UNCHANGED httpLog
    /\ UNCHANGED <<gatewayVars, storeVars, limiterVars, clientVars>>

\* User.findById resolved: 429 when the limit is reached; else the request is
\* added to the loaded document and citizen.save() is called.
DmFindCitizenDone(k) ==
    /\ k \in calls /\ k.pc = "findCitizen"
    /\ IF ~canSendMessageRequest(messageRequests[k.user], k.lawyerId)
       THEN /\ httpLog' = Respond(k, 429, NoChat)
            /\ calls' = calls \ {k}
       ELSE /\ calls' = (calls \ {k}) \cup
                  {[k EXCEPT !.pc = "saveCitizen",
                             !.loaded = addMessageRequest(messageRequests[k.user],
                                                          k.lawyerId)]}
            /\ UNCHANGED httpLog
    /\ UNCHANGED <<gatewayVars, storeVars, limiterVars, clientVars>>

\* citizen.save() resolved: the document's array is stored; Chat.findOne is called.
DmSaveCitizenDone(k) ==
    /\ k \in calls /\ k.pc = "saveCitizen"
    /\ messageRequests' = [messageRequests EXCEPT ![k.user] = k.loaded]
    /\ calls' = (calls \ {k}) \cup {[k EXCEPT !.pc = "findChat"]}
    /\ UNCHANGED <<chats, nextMsgId, httpLog>>
    /\ UNCHANGED <<gatewayVars, limiterVars, clientVars>>

\* The notification of the lawyer and the 200 answer that end the request.
DmNotifyAndAnswer(k) ==
    /\ inbox' = Deliver(inbox, InChannel(PersonalChannel(k.lawyerId)),
                        Ev("direct_message_request",
                           DirectChatId(k.user, k.lawyerId), 0, Undefined, k.user,
                           Hello, "", 0))
    /\ httpLog' = Respond(k, 200, DirectChatId(k.user, k.lawyerId))
    /\ calls' = calls \ {k}
    /\ UNCHANGED <<activeUsers, socketRooms, activeChatRooms, tasks, reqs, failed>>

\* A request that stores its opening message again in the chat it found.
DmFoundChats_PushAgain(k) ==
    saveMessageToDatabase(DirectChatId(k.user, k.lawyerId), k.user, Hello, 0)

\* The Chat collection after a request found the chat of the pair: as it was.
DmFoundChats(k) == chats

\* Chat.findOne resolved: the chat exists and the request ends, or Chat.create
\* is called.
DmFindChatDone(k) ==
    /\ k \in calls /\ k.pc = "findChat"
    /\ IF FindOne(DirectChatId(k.user, k.lawyerId)) # 0
       THEN /\ chats' = DmFoundChats(k)
            /\ DmNotifyAndAnswer(k)
       ELSE /\ calls' = (calls \ {k}) \cup {[k EXCEPT !.pc = "createChat"]}
            /\ UNCHANGED <<chats, httpLog, gatewayVars>>
    /\ UNCHANGED <<nextMsgId, messageRequests>>
    /\ UNCHANGED <<limiterVars, clientVars>>

\* Chat.create resolved: the pending chat is stored, the opening message and
\* lastMessage are set on the document and chat.save() is called; a chatId the
\* collection already holds is refused and the request answers 500.
DmCreateDone(k) ==
    /\ k \in calls /\ k.pc = "createChat"
    /\ IF CanCreate(DirectChatId(k.user, k.lawyerId))
       THEN /\ chats' = Append(chats, ChatDoc(DirectChatId(k.user, k.lawyerId),
                                              {k.user, k.lawyerId}, "direct", "pending"))
            /\ calls' = (calls \ {k}) \cup {[k EXCEPT !.pc = "saveChat"]}
            /\ UNCHANGED httpLog
       ELSE /\ httpLog' = Respond(k, 500, NoChat)
            /\ calls' = calls \ {k}
            /\ UNCHANGED chats
    /\ UNCHANGED <<nextMsgId, messageRequests>>
    /\ UNCHANGED <<gatewayVars, limiterVars, clientVars>>

\* chat.save() resolved: the opening message is stored; the request ends.
DmSaveChatDone(k) ==
    /\ k \in calls /\ k.pc = "saveChat"
    /\ chats' = saveMessageToDatabase(DirectChatId(k.user, k.lawyerId), k.user, Hello, 0)
    /\ nextMsgId' = nextMsgId + 1
    /\ DmNotifyAndAnswer(k)
    /\ UNCHANGED messageRequests
    /\ UNCHANGED <<limiterVars, clientVars>>

\* An awaited store call rejects: the catch block answers 500.
DmStoreError(k) ==
    /\ k \in calls
    /\ httpLog' = Respond(k, 500, NoChat)
    /\ calls' = calls \ {k}
    /\ UNCHANGED <<gatewayVars, storeVars, limiterVars, clientVars>>

\* createChatRoom(participants, "direct"): the Chat collection with the direct
\* chat of the two users, created when it is not stored yet.
createChatRoom(x, y) ==
    IF FindOne(DirectChatId(x, y)) # 0 THEN chats
    ELSE Append(chats, ChatDoc(DirectChatId(x, y), {x, y}, "direct", "pending"))

\* direct_message_request over the socket, up to its await of createChatRoom.
EmitDirectRequest(c, lawyerId) ==
    /\ c \in activeUsers
    /\ reqs' = Append(reqs, Req(c, "direct_message_request",
                                DirectChatId(userOf(c), lawyerId), NoContent, Undefined))
    /\ tasks' = tasks \cup
          {Task(Len(reqs) + 1, "direct_message_request", c,
                DirectChatId(userOf(c), lawyerId), NoContent, Undefined, "create")}
    /\ UNCHANGED <<activeUsers, socketRooms, activeChatRooms, inbox, failed>>
    /\ UNCHANGED <<storeVars, limiterVars, restVars, clientVars>>

\* The other user of a direct chat key.
OtherOf(chatId, u) == IF chatId[2] = u THEN chatId[3] ELSE chatId[2]

\* createChatRoom resolved: the lawyer's personal channel is notified and the
\* sender gets direct_message_request_sent.
DirectRequestDone(t) ==
    /\ t \in tasks /\ t.kind = "direct_message_request" /\ t.pc = "create"
    /\ chats' = createChatRoom(userOf(t.conn), OtherOf(t.chatId, userOf(t.conn)))
    /\ inbox' = Deliver(
          Deliver(inbox,
                  OthersInChannel(t.conn,
                      PersonalChannel(OtherOf(t.chatId, userOf(t.conn)))),
                  Ev("new_direct_message_request", t.chatId, 0, Undefined,
                     userOf(t.conn), NoContent, "", t.seq)),
          {t.conn},
          Ev("direct_message_request_sent", t.chatId, 0, Undefined, 0, NoContent,
             "", t.seq))
    /\ tasks' = tasks \ {t}
    /\ UNCHANGED <<activeUsers, socketRooms, activeChatRooms, reqs, failed>>
    /\ UNCHANGED <<nextMsgId, messageRequests>>
    /\ UNCHANGED <<limiterVars, restVars, clientVars>>

\* ---- acceptDirectRequest
\* A suspended acceptDirectRequest of a lawyer for a chat.
AcceptCall(n, user, chatId, pc) ==
    [n |-> n, user |-> user, lawyerId |-> user, pc |-> pc, loaded |-> <<>>,
     existed |-> FindOne(chatId) # 0, chatId |-> chatId]

\* Chat.findOne that matches every stored chat with the key, whoever asks.
AcceptFinds_AnyLawyer(chatId, lawyerId) == FindOne(chatId) # 0

\* Chat.findOne({ chatId, "participants.user": lawyerId, chatType: "direct" })
\* finds a document.
AcceptFinds(chatId, lawyerId) ==
    /\ FindOne(chatId) # 0
    /\ lawyerId \in chats[FindOne(chatId)].participants
    /\ chats[FindOne(chatId)].chatType = "direct"

\* POST /accept-request/:chatId by an authenticated, verified lawyer, up to its
\* await of Chat.findOne.
HttpAccept(u, chatId) ==
    /\ roleOf(u) = "lawyer"
    /\ calls' = calls \cup {AcceptCall(DmCount + 1, u, chatId, "acceptFind")}
    /\ UNCHANGED httpLog
    /\ UNCHANGED <<gatewayVars, storeVars, limiterVars, clientVars>>

\* Chat.findOne resolved: 404 when nothing matched; else the status of the
\* loaded document is set and chat.save() is called.
AcceptFindDone(k) ==
    /\ k \in calls /\ k.pc = "acceptFind"
    /\ IF ~AcceptFinds(k.chatId, k.user)
       THEN /\ httpLog' = Respond(k, 404, k.chatId)
            /\ calls' = calls \ {k}
       ELSE /\ calls' = (calls \ {k}) \cup {[k EXCEPT !.pc = "acceptSave"]}
            /\ UNCHANGED httpLog
    /\ UNCHANGED <<gatewayVars, storeVars, limiterVars, clientVars>>

\* The citizens among the participants of a chat.
CitizensOf(chatId) == {u \in chats[FindOne(chatId)].participants : roleOf(u) = "citizen"}

\* chat.save() resolved: the status is stored as active, the citizen's personal
\* channel gets direct_request_accepted and the request answers 200.
AcceptSaveDone(k) ==
    /\ k \in calls /\ k.pc = "acceptSave"
    /\ chats' = [chats EXCEPT ![FindOne(k.chatId)].status = "active"]
    /\ inbox' = Deliver(inbox,
                        UNION {InChannel(PersonalChannel(u)) : u \in CitizensOf(k.chatId)},
                        Ev("direct_request_accepted", k.chatId, 0, Undefined, k.user,
                           NoContent, "", 0))
    /\ httpLog' = Respond(k, 200, k.chatId)
    /\ calls' = calls \ {k}
    /\ UNCHANGED <<activeUsers, socketRooms, activeChatRooms, tasks, reqs, failed>>
    /\ UNCHANGED <<nextMsgId, messageRequests>>
    /\ UNCHANGED <<limiterVars, clientVars>>

\* ---- acceptance scenario: the citizen (user 2) asks lawyer 1 over REST;
\* lawyers 1 and 3 accept the direct chat of users 2 and 1; both participants
\* send to it.
AcRequest ==
    /\ DmCount + Len(reqs) < MaxAcceptEvents
    /\ HttpDmRequest(2, 1)

AcAccept ==
    /\ DmCount + Len(reqs) < MaxAcceptEvents
    /\ \E u \in {1, 3} : HttpAccept(u, DirectChatId(2, 1))

AcSend ==
    /\ DmCount + Len(reqs) < MaxAcceptEvents
    /\ \E c \in {"s1", "s2"} : EmitSend(c, DirectChatId(2, 1), Hello, "t1")

NextAccept ==
    \/ AcRequest
    \/ AcAccept
    \/ AcSend
    \/ \E k \in calls : DmFindLawyerDone(k)
    \/ \E k \in calls : DmFindCitizenDone(k)
    \/ \E k \in calls : DmSaveCitizenDone(k)
    \/ \E k \in calls : DmFindChatDone(k)
    \/ \E k \in calls : DmCreateDone(k)
    \/ \E k \in calls : DmSaveChatDone(k)
    \/ \E k \in calls : AcceptFindDone(k)
    \/ \E k \in calls : AcceptSaveDone(k)
    \/ \E k \in calls : DmStoreError(k)
    \/ \E t \in tasks : SendAccessDone(t)
    \/ \E t \in tasks : SendSaveDone(t)

SpecAccept == Init /\ [][NextAccept]_vars

\* ---- limiter scenario: the citizen (user 2) asks lawyers 1 and 3 over REST,
\* one request after the other, while time passes.
LmRequest ==
    /\ DmCount < MaxLimitRequests
    /\ calls = {}
    /\ \E l \in {1, 3} : HttpDmRequest(2, l)

NextLimit ==
    \/ LmRequest
    \/ Tick
    \/ \E k \in calls : DmFindLawyerDone(k)
    \/ \E k \in calls : DmFindCitizenDone(k)
    \/ \E k \in calls : DmSaveCitizenDone(k)
    \/ \E k \in calls : DmFindChatDone(k)
    \/ \E k \in calls : DmCreateDone(k)
    \/ \E k \in calls : DmSaveChatDone(k)

SpecLimit == Init /\ [][NextLimit]_vars

\* ---- direct-chat scenario: the citizen (user 2) asks lawyer 1, or itself, which
\* is no lawyer, over REST; lawyer 1 asks for the citizen over the socket.
DrHttp ==
    /\ DmCount + Len(reqs) < MaxDmRequests
    /\ \E l \in {1, 2} : HttpDmRequest(2, l)

DrSocket ==
    /\ DmCount + Len(reqs) < MaxDmRequests
    /\ EmitDirectRequest("s2", 2)

NextDirect ==
    \/ DrHttp
    \/ DrSocket
    \/ \E k \in calls : DmFindLawyerDone(k)
    \/ \E k \in calls : DmFindCitizenDone(k)
    \/ \E k \in calls : DmSaveCitizenDone(k)
    \/ \E k \in calls : DmFindChatDone(k)
    \/ \E k \in calls : DmCreateDone(k)
    \/ \E k \in calls : DmSaveChatDone(k)
    \/ \E k \in calls : DmStoreError(k)
    \/ \E t \in tasks : DirectRequestDone(t)

SpecDirect == Init /\ [][NextDirect]_vars

\* ------------------------------------------------------------------ ChatPage
\* The ChatPage instance of user 2, on socket s1, opened on the direct chat of
\* users 2 and 1.
PageConn == "s1"

PageChat == DirectChatId(2, 1)

\* Date.now().toString() of the n-th submit: a fresh correlation id.
TempId(n) == <<"t1", "t2", "t3", "t4", "t5">>[n]

\* An entry of the local list; id 0 is an absent _id.
Entry(id, tempId, status, chatId, content, sender, timestamp) ==
    [id |-> id, tempId |-> tempId, status |-> status, chatId |-> chatId,
     content |-> content, sender |-> sender, timestamp |-> timestamp]

\* new Date() of the n-th submit, taken from the clock of the browser.
LocalStamp(n) == <<"local", n>>

\* { ...messageData, status }
FromPayload(d, status) ==
    Entry(d.msgId, d.tempId, status, d.chatId, d.content, d.sender, d.timestamp)

\* The callback of new_message with every payload appended.
OnNewMessage_AlwaysAppend(prev, d) ==
    IF d.chatId # PageChat THEN prev ELSE Append(prev, FromPayload(d, "received"))

\* The callback of new_message: the list after setMessages.
OnNewMessage(prev, d) ==
    IF d.chatId # PageChat THEN prev
    ELSE IF \E i \in 1..Len(prev) :
               \/ prev[i].id = d.msgId
               \/ (prev[i].tempId # Undefined /\ prev[i].tempId = d.tempId)
         THEN [i \in 1..Len(prev) |->
                  IF prev[i].tempId = d.tempId THEN FromPayload(d, "sent")
                  ELSE prev[i]]
         ELSE Append(prev, FromPayload(d, "received"))

\* The callback of message_sent dropping the confirmed optimistic entry and
\* leaving it to the broadcast to show the message.
OnMessageSent_DropTemp(prev, d) ==
    IF d.tempId = Undefined THEN prev
    ELSE SelectSeq(prev, LAMBDA m : m.tempId # d.tempId)

\* The callback of message_sent appending a confirmed copy of the entry each
\* time it runs.
OnMessageSent_AppendCopy(prev, d) ==
    IF d.tempId = Undefined THEN prev
    ELSE prev \o [i \in 1..Len(SelectSeq(prev, LAMBDA m : m.tempId = d.tempId)) |->
                    [SelectSeq(prev, LAMBDA m : m.tempId = d.tempId)[i]
                        EXCEPT !.id = d.msgId, !.status = "sent",
                               !.timestamp = d.timestamp]]

\* The callback of message_sent: the list after setMessages.
OnMessageSent(prev, d) ==
    IF d.tempId = Undefined THEN prev
    ELSE [i \in 1..Len(prev) |->
             IF prev[i].tempId = d.tempId
             THEN [prev[i] EXCEPT !.id = d.msgId, !.status = "sent",
                                  !.timestamp = d.timestamp]
             ELSE prev[i]]

\* The callback of error leaving the list as it is.
OnError_KeepAll(prev) == prev

\* The callback of error: the list after setMessages.
OnError(prev) == SelectSeq(prev, LAMBDA m : m.status # "sending")

\* sendMessage of the page, up to and including socket.emit and setTimeout.
PageSubmit ==
    /\ ~isSending
    /\ pageConnected
    /\ messages' = Append(messages,
          Entry(0, TempId(Len(sent) + 1), "sending", PageChat, Hello, userOf(PageConn),
                LocalStamp(Len(sent) + 1)))
    /\ isSending' = TRUE
    /\ sent' = Append(sent, [chatId |-> PageChat, content |-> Hello,
                             tempId |-> TempId(Len(sent) + 1)])
    /\ timers' = timers \cup {TempId(Len(sent) + 1)}
    /\ UNCHANGED <<seen, setupVars>>

\* A timer callback that leaves the flag as it is.
PageTimer_FlagKept(x) ==
    /\ x \in timers
    /\ timers' = timers \ {x}
    /\ UNCHANGED <<messages, isSending, sent, seen, setupVars>>
    /\ UNCHANGED <<gatewayVars, storeVars, limiterVars, restVars>>

\* The 5-second timer of a submit fires.
PageTimer(x) ==
    /\ x \in timers
    /\ timers' = timers \ {x}
    /\ isSending' = FALSE
    /\ UNCHANGED <<messages, sent, seen, setupVars>>
    /\ UNCHANGED <<gatewayVars, storeVars, limiterVars, restVars>>

\* The page handles the next event of its socket; events it has no handler
\* for are dropped.
PageReceive ==
    /\ seen < Len(inbox[PageConn])
    /\ seen' = seen + 1
    /\ LET d == inbox[PageConn][seen + 1]
       IN CASE d.type = "new_message" ->
                  /\ messages' = OnNewMessage(messages, d)
                  /\ UNCHANGED isSending
            [] d.type = "message_sent" ->
                  /\ messages' = OnMessageSent(messages, d)
                  /\ isSending' = FALSE
            [] d.type = "error" ->
                  /\ messages' = OnError(messages)
                  /\ isSending' = FALSE
            [] OTHER -> UNCHANGED <<messages, isSending>>
    /\ UNCHANGED <<timers, sent, setupVars>>
    /\ UNCHANGED <<gatewayVars, storeVars, limiterVars, restVars>>

\* ---- page scenario: the page against a server that pushes any event.
\* The correlation ids the page has sent so far.
SentTempIds == {sent[n].tempId : n \in 1..Len(sent)}

\* The events a server may push: new_message and message_sent with either
\* message id and no correlation id or one the page has sent, for the open chat
\* or another one, and error.
Pushable ==
    {Ev("new_message", k, id, x, userOf(PageConn), Hello, "", 0) :
        k \in {PageChat}, id \in {1, 2}, x \in {Undefined} \cup SentTempIds}
    \cup {Ev("new_message", R2, 1, Undefined, userOf(PageConn), Hello, "", 0)}
    \cup {Ev("message_sent", NoChat, id, x, 0, NoContent, "", 0) :
             id \in {1, 2}, x \in {Undefined} \cup SentTempIds}
    \cup {ErrorEv("Failed to send message", 0)}

ClSubmit ==
    /\ Len(sent) < MaxClientSends
    /\ PageSubmit
    /\ UNCHANGED <<gatewayVars, storeVars, limiterVars, restVars>>

\* The server pushes one event once the page has handled the previous ones.
ClPush ==
    /\ Len(inbox[PageConn]) < MaxPushes
    /\ seen = Len(inbox[PageConn])
    /\ \E d \in Pushable : inbox' = Deliver(inbox, {PageConn}, d)
    /\ UNCHANGED <<activeUsers, socketRooms, activeChatRooms, tasks, reqs, failed>>
    /\ UNCHANGED <<storeVars, limiterVars, restVars, clientVars>>

ClTimer == \E x \in timers : PageTimer(x)

NextClient ==
    \/ ClSubmit
    \/ ClPush
    \/ ClTimer
    \/ PageReceive

SpecClient == Init /\ [][NextClient]_vars

\* ---- opening the page
\* What the page hands to its socket.
PageEmit(kind) == [kind |-> kind, chatId |-> PageChat]

\* The body of the join/leave effect for an authenticated user: it starts
\* testTokenValidity().then(...) and emits join_chat if the socket is connected.
RunEffect(connected, emits) ==
    /\ chains' = Append(chains, "token")
    /\ pageEmits' = IF connected THEN Append(emits, PageEmit("join_chat")) ELSE emits

\* The component mounts: the effect runs for the first time.
PageMount ==
    /\ chains = <<>>
    /\ RunEffect(pageConnected, pageEmits)
    /\ UNCHANGED <<messages, isSending, timers, sent, seen, loading, pageConnected>>
    /\ UNCHANGED <<gatewayVars, storeVars, limiterVars, restVars>>

\* A variant of the connection change in which the cleanup of the previous
\* effect run emits leave_chat after the new run has emitted join_chat.
PageConnectionChange_CleanupLast ==
    /\ pageConnected' = ~pageConnected
    /\ IF chains = <<>> THEN UNCHANGED <<chains, pageEmits>>
       ELSE /\ chains' = Append(chains, "token")
            /\ pageEmits' = Append(IF ~pageConnected
                                      THEN Append(pageEmits, PageEmit("join_chat"))
                                      ELSE pageEmits,
                                   PageEmit("leave_chat"))
    /\ UNCHANGED <<messages, isSending, timers, sent, seen, loading>>
    /\ UNCHANGED <<gatewayVars, storeVars, limiterVars, restVars>>

\* isConnected changes. Before the mount nothing else happens; after it the
\* cleanup of the previous effect run emits leave_chat and the effect runs again.
PageConnectionChange ==
    /\ pageConnected' = ~pageConnected
    /\ IF chains = <<>> THEN UNCHANGED <<chains, pageEmits>>
       ELSE RunEffect(~pageConnected, Append(pageEmits, PageEmit("leave_chat")))
    /\ UNCHANGED <<messages, isSending, timers, sent, seen, loading>>
    /\ UNCHANGED <<gatewayVars, storeVars, limiterVars, restVars>>

\* testTokenValidity() of the n-th effect run resolves: fetchChatInfo() and
\* fetchMessages() start.
PageTokenTested(n) ==
    /\ n \in 1..Len(chains)
    /\ chains[n] = "token"
    /\ chains' = [chains EXCEPT ![n] = "fetch"]
    /\ UNCHANGED <<messages, isSending, timers, sent, seen>>
    /\ UNCHANGED <<loading, pageConnected, pageEmits>>
    /\ UNCHANGED <<gatewayVars, storeVars, limiterVars, restVars>>

\* The lists fetchMessages can set: the empty one (no messages, 404, a failed
\* or rejected request) and a history of one message of the other participant.
FetchResults ==
    {<<>>, <<Entry(1, Undefined, Undefined, PageChat, Hello, 1, SavedStamp(1))>>}

\* fetchMessages() of the n-th effect run completes with this list.
PageFetchDone(n, list) ==
    /\ n \in 1..Len(chains)
    /\ chains[n] = "fetch"
    /\ chains' = [chains EXCEPT ![n] = "done"]
    /\ messages' = list
    /\ loading' = FALSE
    /\ UNCHANGED <<isSending, timers, sent, seen, pageConnected, pageEmits>>
    /\ UNCHANGED <<gatewayVars, storeVars, limiterVars, restVars>>

\* ---- mount scenario: the page of an authenticated user opens while its
\* socket is not connected; the socket connects and disconnects at any time.
InitMount ==
    /\ InitGateway /\ InitStore /\ InitLimiter /\ InitRest /\ InitPage
    /\ loading = TRUE
    /\ pageConnected = FALSE
    /\ pageEmits = <<>>
    /\ chains = <<>>

MoConnectionChange ==
    /\ Len(chains) < MaxEffectRuns
    /\ chains = <<>> => ~pageConnected
    /\ PageConnectionChange

MoTokenTested == \E n \in 1..Len(chains) : PageTokenTested(n)

MoFetchDone == \E n \in 1..Len(chains), list \in FetchResults : PageFetchDone(n, list)

NextMount ==
    \/ PageMount
    \/ MoConnectionChange
    \/ MoTokenTested
    \/ MoFetchDone

SpecMount == InitMount /\ [][NextMount]_vars

\* ---- history scenario: the page opens as in the mount scenario while the
\* gateway broadcasts messages 1 and 2 of the chat to its socket.
HiPush ==
    /\ pageConnected
    /\ Len(inbox[PageConn]) < MaxHistoryPushes
    /\ seen = Len(inbox[PageConn])
    /\ \E id \in {1, 2} :
          inbox' = Deliver(inbox, {PageConn},
                           Ev("new_message", PageChat, id, Undefined, 1, Hello, "", 0))
    /\ UNCHANGED <<activeUsers, socketRooms, activeChatRooms, tasks, reqs, failed>>
    /\ UNCHANGED <<storeVars, limiterVars, restVars, clientVars>>

NextHistory ==
    \/ PageMount
    \/ MoConnectionChange
    \/ MoTokenTested
    \/ MoFetchDone
    \/ HiPush
    \/ PageReceive

SpecHistory == InitMount /\ [][NextHistory]_vars

\* ---- timer scenario: the page against a server that pushes any event or
\* none; a timer that was set fires.
TiSubmit ==
    /\ Len(sent) < MaxTimerSends
    /\ PageSubmit
    /\ UNCHANGED <<gatewayVars, storeVars, limiterVars, restVars>>

TiPush ==
    /\ Len(inbox[PageConn]) < MaxTimerPushes
    /\ seen = Len(inbox[PageConn])
    /\ \E d \in Pushable : inbox' = Deliver(inbox, {PageConn}, d)
    /\ UNCHANGED <<activeUsers, socketRooms, activeChatRooms, tasks, reqs, failed>>
    /\ UNCHANGED <<storeVars, limiterVars, restVars, clientVars>>

TiTimer == \E x \in timers : PageTimer(x)

NextTimer ==
    \/ TiSubmit
    \/ TiPush
    \/ TiTimer
    \/ PageReceive

\* setTimeout: the event loop runs the callback of every timer that was set.
TimersFire == \A n \in 1..MaxTimerSends : WF_vars(PageTimer(TempId(n)))

SpecTimer == Init /\ [][NextTimer]_vars /\ TimersFire

\* ---- end-to-end scenario: the page of user 2 and the gateway, with users 2
\* and 1 joined to their accepted direct chat.
\* The two join_chat events of the scenario, received at time 0.
InitReqsJoined ==
    <<[conn |-> "s1", kind |-> "join_chat", chatId |-> PageChat,
       content |-> NoContent, tempId |-> Undefined, at |-> 0],
      [conn |-> "s2", kind |-> "join_chat", chatId |-> PageChat,
       content |-> NoContent, tempId |-> Undefined, at |-> 0]>>

\* The gateway once s1 and then s2 have joined the chat.
InitJoined ==
    /\ activeUsers = Conns
    /\ socketRooms = [c \in Conns |->
          {PersonalChannel(userOf(c))}
              \cup (IF c \in {"s1", "s2"} THEN {PageChat} ELSE {})]
    /\ activeChatRooms = [k \in {PageChat} |-> {"s1", "s2"}]
    /\ tasks = {}
    /\ inbox = [c \in Conns |->
          CASE c = "s1" ->
                  <<Ev("chat_joined", PageChat, 0, Undefined, 0, NoContent, "", 1),
                    Ev("messages_read", PageChat, 0, Undefined, 1, NoContent, "", 2)>>
            [] c = "s2" ->
                  <<Ev("chat_joined", PageChat, 0, Undefined, 0, NoContent, "", 2)>>
            [] OTHER -> <<>>]
    /\ reqs = InitReqsJoined
    /\ failed = {}

InitE2E ==
    /\ chats = Append(InitChats, ChatDoc(PageChat, {2, 1}, "direct", "active"))
    /\ nextMsgId = 1
    /\ messageRequests = [u \in Users |-> <<>>]
    /\ InitLimiter /\ InitRest /\ InitClient /\ InitJoined

\* The page submits and the gateway receives the send_message it emits.
EeSubmit ==
    /\ Len(sent) < MaxClientSends
    /\ PageSubmit
    /\ SendReceived(PageConn, PageChat, Hello, TempId(Len(sent) + 1))

EeTimer == \E x \in timers : PageTimer(x)

NextE2E ==
    \/ EeSubmit
    \/ EeTimer
    \/ PageReceive
    \/ \E t \in tasks : SendAccessDone(t)
    \/ \E t \in tasks : SendSaveDone(t)
    \/ \E t \in tasks : StoreError(t)

SpecE2E == InitE2E /\ [][NextE2E]_vars

\* ---- membership scenario: any connection joins R1, s1 leaves it and
\* disconnects, s2 sends to it.
PrJoin == Len(reqs) < MaxPresenceEvents /\ \E c \in Conns : EmitJoin(c, R1)

PrLeave == Len(reqs) < MaxPresenceEvents /\ EmitLeave("s1", R1)

PrDisconnect == Len(reqs) < MaxPresenceEvents /\ Disconnect("s1")

PrSend == Len(reqs) < MaxPresenceEvents /\ EmitSend("s2", R1, Hello, "t1")

NextPresence ==
    \/ PrJoin
    \/ PrLeave
    \/ PrDisconnect
    \/ PrSend
    \/ \E t \in tasks : JoinAccessDone(t)
    \/ \E t \in tasks : JoinFindDone(t)
    \/ \E t \in tasks : JoinSaveDone(t)
    \/ \E t \in tasks : SendAccessDone(t)
    \/ \E t \in tasks : SendSaveDone(t)
    \/ \E t \in tasks : StoreError(t)

SpecPresence == Init /\ [][NextPresence]_vars

\* ---- typing scenario: any connection joins R1 and any connection reports
\* typing in R1 or R2, joined or not.
TyJoin == Len(reqs) < MaxTypingEvents /\ \E c \in Conns : EmitJoin(c, R1)

TyStart ==
    /\ Len(reqs) < MaxTypingEvents
    /\ \E c \in Conns, k \in {R1, R2} : EmitTyping(c, "typing_start", k)

TyStop ==
    /\ Len(reqs) < MaxTypingEvents
    /\ \E c \in Conns, k \in {R1, R2} : EmitTyping(c, "typing_stop", k)

NextTyping ==
    \/ TyJoin
    \/ TyStart
    \/ TyStop
    \/ \E t \in tasks : JoinAccessDone(t)
    \/ \E t \in tasks : JoinFindDone(t)
    \/ \E t \in tasks : JoinSaveDone(t)

SpecTyping == Init /\ [][NextTyping]_vars

\* ---- confinement scenario: user 2 (s1), a participant of R1, and user 3
\* (s3), who is none, join, leave and send with the key of R1 and with the key
\* of the personal channel of user 2, and disconnect.
LeakKeys == {R1, PersonalChannel(2)}

LkJoin ==
    /\ Len(reqs) < MaxLeakEvents
    /\ \E c \in {"s1", "s3"}, k \in LeakKeys : EmitJoin(c, k)

LkLeave ==
    /\ Len(reqs) < MaxLeakEvents
    /\ \E c \in {"s1", "s3"}, k \in LeakKeys : EmitLeave(c, k)

LkSend ==
    /\ Len(reqs) < MaxLeakEvents
    /\ \E c \in {"s1", "s3"}, k \in LeakKeys : EmitSend(c, k, Hello, "t1")

LkDisconnect ==
    /\ Len(reqs) < MaxLeakEvents
    /\ \E c \in {"s1", "s3"} : Disconnect(c)

NextLeak ==
    \/ LkJoin
    \/ LkLeave
    \/ LkSend
    \/ LkDisconnect
    \/ \E t \in tasks : JoinAccessDone(t)
    \/ \E t \in tasks : JoinFindDone(t)
    \/ \E t \in tasks : JoinSaveDone(t)
    \/ \E t \in tasks : SendAccessDone(t)
    \/ \E t \in tasks : SendSaveDone(t)

SpecLeak == Init /\ [][NextLeak]_vars

\* ---- a case reassignment
\* The case of a case-bound chat is reassigned: the user is no longer one of
\* the participants of the stored chat.
Reassign(chatId, u) ==
    /\ FindOne(chatId) # 0
    /\ u \in chats[FindOne(chatId)].participants
    /\ chats' = [chats EXCEPT ![FindOne(chatId)].participants = @ \ {u}]
    /\ UNCHANGED <<nextMsgId, messageRequests>>
    /\ UNCHANGED <<gatewayVars, limiterVars, restVars, clientVars>>

\* ---- reassignment scenario: users 2 and 1 join R1 and send to it; the case
\* of R1 is taken from user 2 at any time.
RvJoin == Len(reqs) < MaxRevokeEvents /\ \E c \in {"s1", "s2"} : EmitJoin(c, R1)

RvSend == Len(reqs) < MaxRevokeEvents /\ \E c \in {"s1", "s2"} : EmitSend(c, R1, Hello, "t1")

RvReassign == Reassign(R1, 2)

NextRevoke ==
    \/ RvJoin
    \/ RvSend
    \/ RvReassign
    \/ \E t \in tasks : JoinAccessDone(t)
    \/ \E t \in tasks : JoinFindDone(t)
    \/ \E t \in tasks : JoinSaveDone(t)
    \/ \E t \in tasks : SendAccessDone(t)
    \/ \E t \in tasks : SendSaveDone(t)

SpecRevoke == Init /\ [][NextRevoke]_vars

\* ---- handshake
\* Two more accounts: one whose isActive is false, and an id no User document
\* has.
InactiveUser == 4

MissingUser == 5

\* What a handshake carries: no token, a token verifyAccessToken rejects, or a
\* token that verifies and decodes to a user id.
NoToken == [kind |-> "none", id |-> 0]

BadToken == [kind |-> "bad", id |-> 0]

GoodToken(u) == [kind |-> "good", id |-> u]

\* A handshake whose user lookup accepts every decoded id.
FindsActiveUser_Any(u) == TRUE

\* User.findById(decoded.id) finds an active user.
FindsActiveUser(u) == u \in Users

\* next(new Error(text)): the connection is refused, the client gets
\* connect_error.
Refuse(c, text, seq) ==
    [inbox EXCEPT ![c] =
        Append(@, Ev("connect_error", NoChat, 0, Undefined, 0, NoContent, text, seq))]

\* Connection c has made its handshake.
Shaken(c) == \E i \in 1..Len(reqs) : reqs[i].kind = "handshake" /\ reqs[i].conn = c

\* The middleware up to its await of User.findById.
Handshake(c, tok) ==
    /\ ~Shaken(c)
    /\ reqs' = Append(reqs, [token |-> tok]
                               @@ Req(c, "handshake", NoChat, NoContent, Undefined))
    /\ IF tok.kind = "none"
       THEN /\ inbox' = Refuse(c, "Authentication token required", Len(reqs) + 1)
            /\ UNCHANGED tasks
       ELSE IF tok.kind = "bad"
            THEN /\ inbox' = Refuse(c, "Authentication failed", Len(reqs) + 1)
                 /\ UNCHANGED tasks
            ELSE /\ tasks' = tasks \cup
                       {[Task(Len(reqs) + 1, "handshake", c, NoChat, NoContent,
                              Undefined, "user") EXCEPT !.ids = {tok.id}]}
                 /\ UNCHANGED inbox
    /\ UNCHANGED <<activeUsers, socketRooms, activeChatRooms, failed>>
    /\ UNCHANGED <<storeVars, limiterVars, restVars, clientVars>>

\* User.findById resolved: refused, or next() and the connection handler:
\* activeUsers.set(socket.id, ...) and socket.join of the personal channel.
HandshakeUserDone(t) ==
    /\ t \in tasks /\ t.kind = "handshake" /\ t.pc = "user"
    /\ tasks' = tasks \ {t}
    /\ IF \E u \in t.ids : ~FindsActiveUser(u)
       THEN /\ inbox' = Refuse(t.conn, "User not found or inactive", t.seq)
            /\ UNCHANGED <<activeUsers, socketRooms>>
       ELSE /\ activeUsers' = activeUsers \cup {t.conn}
            /\ socketRooms' = [socketRooms EXCEPT ![t.conn] =
                                  @ \cup {PersonalChannel(userOf(t.conn))}]
            /\ UNCHANGED inbox
    /\ UNCHANGED <<activeChatRooms, reqs, failed>>
    /\ UNCHANGED <<storeVars, limiterVars, restVars, clientVars>>

\* User.findById rejects: the catch block of the middleware.
HandshakeStoreError(t) ==
    /\ t \in tasks /\ t.kind = "handshake" /\ t.pc = "user"
    /\ tasks' = tasks \ {t}
    /\ inbox' = Refuse(t.conn, "Authentication failed", t.seq)
    /\ failed' = failed \cup {<<t.seq, t.pc>>}
    /\ UNCHANGED <<activeUsers, socketRooms, activeChatRooms, reqs>>
    /\ UNCHANGED <<storeVars, limiterVars, restVars, clientVars>>

\* ---- handshake scenario: no connection is registered yet; each connection
\* makes one handshake, with any token, and emits join_chat and typing_start
\* for R1 whenever it likes.
InitAuth ==
    /\ activeUsers = {}
    /\ socketRooms = [c \in Conns |-> {}]
    /\ activeChatRooms = [k \in {} |-> {}]
    /\ tasks = {}
    /\ inbox = [c \in Conns |-> <<>>]
    /\ reqs = <<>>
    /\ failed = {}
    /\ InitStore /\ InitLimiter /\ InitRest /\ InitClient

AuHandshake ==
    /\ Len(reqs) < MaxAuthEvents
    /\ \E c \in Conns :
          \E tok \in {NoToken, BadToken, GoodToken(userOf(c)),
                      GoodToken(InactiveUser), GoodToken(MissingUser)} :
             Handshake(c, tok)

AuJoin == Len(reqs) < MaxAuthEvents /\ \E c \in Conns : EmitJoin(c, R1)

AuTyping ==
    Len(reqs) < MaxAuthEvents /\ \E c \in Conns : EmitTyping(c, "typing_start", R1)

NextAuth ==
    \/ AuHandshake
    \/ AuJoin
    \/ AuTyping
    \/ \E t \in tasks : HandshakeUserDone(t)
    \/ \E t \in tasks : HandshakeStoreError(t)
    \/ \E t \in tasks : JoinAccessDone(t)
    \/ \E t \in tasks : JoinFindDone(t)
    \/ \E t \in tasks : JoinSaveDone(t)

SpecAuth == InitAuth /\ [][NextAuth]_vars

\* ---- ordering scenario: users 2 and 1, joined to their direct chat, send to
\* it concurrently. The awaited saveMessageToDatabase is followed through its
\* two events, the store appending the message and the handler resuming with
\* the result; SendSaveDone is the two taken together.
\* The store appends the message of a suspended saveMessageToDatabase.
SaveCommitted(t) ==
    /\ t \in tasks /\ t.kind = "send_message" /\ t.pc = "save"
    /\ FindOne(t.chatId) # 0
    /\ chats' = saveMessageToDatabase(t.chatId, userOf(t.conn), t.content, t.seq)
    /\ nextMsgId' = nextMsgId + 1
    /\ tasks' = (tasks \ {t}) \cup {[t EXCEPT !.pc = "saved", !.ids = {nextMsgId}]}
    /\ UNCHANGED <<activeUsers, socketRooms, activeChatRooms, inbox, reqs, failed>>
    /\ UNCHANGED messageRequests
    /\ UNCHANGED <<limiterVars, restVars, clientVars>>

\* The handler resumes with savedMessage: new_message to the room, then
\* message_sent to the sender.
SaveResolved(t) ==
    /\ t \in tasks /\ t.kind = "send_message" /\ t.pc = "saved"
    /\ \E id \in t.ids :
          inbox' = Deliver(
              Deliver(inbox, NewMessageTargets(t), NewMessagePayload(t, id)),
              MessageSentTargets(t), MessageSentPayload(t, id))
    /\ tasks' = tasks \ {t}
    /\ UNCHANGED <<activeUsers, socketRooms, activeChatRooms, reqs, failed>>
    /\ UNCHANGED <<storeVars, limiterVars, restVars, clientVars>>

OrdSend ==
    /\ Len(reqs) < Len(InitReqsJoined) + MaxOrderSends
    /\ \E c \in {"s1", "s2"} : EmitSend(c, PageChat, Hello, "t1")

NextOrder ==
    \/ OrdSend
    \/ \E t \in tasks : SendAccessDone(t)
    \/ \E t \in tasks : SaveCommitted(t)
    \/ \E t \in tasks : SaveResolved(t)

SpecOrder == InitE2E /\ [][NextOrder]_vars

\* ============================================================ gateway claims
\* The events client event i caused at connection c, in emission order.
EventsFor(c, i) == SelectSeq(inbox[c], LAMBDA e : e.req = i)

\* How many events of a type client event i caused at connection c.
Count(c, i, type) == Len(SelectSeq(inbox[c], LAMBDA e : e.req = i /\ e.type = type))

\* The handler of client event i is no longer suspended.
Finished(i) == \A t \in tasks : t.seq # i

\* Client event i is the next event of its connection after client event h.
NextOfConn(h, i) ==
    /\ h < i
    /\ reqs[h].conn = reqs[i].conn
    /\ \A k \in (h + 1)..(i - 1) : reqs[k].conn # reqs[h].conn

\* Content that is present, not blank and at most 1000 characters long.
ValidContent(s) == s.given /\ s.core > 0 /\ s.lead + s.core + s.trail <= 1000

\* The request names an existing room its user is no participant of.
NonParticipant(r) ==
    \E i \in 1..Len(chats) :
        /\ chats[i].chatId = r.chatId
        /\ userOf(r.conn) \notin chats[i].participants

\* The request names a room its user is a participant of.
Participant(r) ==
    \E i \in 1..Len(chats) :
        /\ chats[i].chatId = r.chatId
        /\ userOf(r.conn) \in chats[i].participants

\* Client event i ended in the catch block of its handler.
StoreFailed(i) == \E f \in failed : f[1] = i

\* Client event i was refused by the rate limiter.
RateLimited(i) ==
    \E k \in 1..Len(inbox[reqs[i].conn]) :
        /\ inbox[reqs[i].conn][k].req = i
        /\ inbox[reqs[i].conn][k].text =
              "Message rate limit exceeded. Please slow down."

\* C1: a participant's join_chat followed immediately by its send_message to
\* the same room, both succeeding: the sender's own connection receives exactly
\* one new_message for that send, and no connection receives it twice.
C1_JoinThenSendReachesSender ==
    \A h \in 1..Len(reqs), i \in 1..Len(reqs) :
        ( /\ NextOfConn(h, i)
          /\ reqs[h].kind = "join_chat"
          /\ reqs[i].kind = "send_message"
          /\ reqs[h].chatId = reqs[i].chatId
          /\ Participant(reqs[i])
          /\ ValidContent(reqs[i].content)
          /\ Count(reqs[h].conn, h, "chat_joined") = 1
          /\ Count(reqs[i].conn, i, "message_sent") = 1 )
        => /\ Count(reqs[i].conn, i, "new_message") = 1
           /\ \A c \in Conns : Count(c, i, "new_message") <= 1

\* C3: every message_sent is received by the connection that sent the
\* send_message, and carries that request's tempId and the id the store
\* assigned to its message.
C3_MessageSentCarriesTempId ==
    \A c \in Conns : \A k \in 1..Len(inbox[c]) :
        inbox[c][k].type = "message_sent" =>
            /\ c = reqs[inbox[c][k].req].conn
            /\ inbox[c][k].tempId = reqs[inbox[c][k].req].tempId
            /\ \E n \in 1..Len(chats) : \E m \in 1..Len(chats[n].messages) :
                  /\ chats[n].messages[m].id = inbox[c][k].msgId
                  /\ chats[n].messages[m].req = inbox[c][k].req

\* A request of a non-participant on an existing room whose handler ran to its
\* end with the store answering, the content valid and the limiter allowing it.
DeniedCase(i) ==
    /\ reqs[i].kind \in {"join_chat", "send_message", "mark_messages_read"}
    /\ NonParticipant(reqs[i])
    /\ Finished(i)
    /\ ~StoreFailed(i)
    /\ reqs[i].kind = "send_message" =>
          ValidContent(reqs[i].content) /\ ~RateLimited(i)

\* The access-denied error each handler emits.
DeniedText(kind) ==
    IF kind = "join_chat" THEN "Access denied to chat room"
    ELSE "Chat not found or access denied"

\* C6 as stated: join_chat, send_message and mark_messages_read of a
\* non-participant each deliver an access-denied error to the caller.
C6_DeniedErrorForAllThree ==
    \A i \in 1..Len(reqs) :
        DeniedCase(i) =>
            \E k \in 1..Len(inbox[reqs[i].conn]) :
                /\ inbox[reqs[i].conn][k].req = i
                /\ inbox[reqs[i].conn][k].type = "error"
                /\ inbox[reqs[i].conn][k].text \in
                      {"Access denied to chat room", "Chat not found or access denied"}

\* C6 amended: join_chat and send_message of a non-participant deliver exactly
\* one event, the access-denied error, to the caller and nothing to anyone
\* else; mark_messages_read of a non-participant delivers no event at all.
C6_DeniedErrorForJoinAndSend ==
    \A i \in 1..Len(reqs) :
        DeniedCase(i) =>
            IF reqs[i].kind = "mark_messages_read"
            THEN \A c \in Conns : EventsFor(c, i) = <<>>
            ELSE \A c \in Conns :
                    EventsFor(c, i) =
                        IF c = reqs[i].conn
                        THEN <<ErrorEv(DeniedText(reqs[i].kind), i)>>
                        ELSE <<>>

\* Witness of C6: a denied join_chat has delivered its error and a
\* mark_messages_read of a non-participant has run to its end.
C6_Witness ==
    \E i \in 1..Len(reqs), j \in 1..Len(reqs) :
        /\ DeniedCase(i) /\ reqs[i].kind = "join_chat"
        /\ EventsFor(reqs[i].conn, i) # <<>>
        /\ DeniedCase(j) /\ reqs[j].kind = "mark_messages_read"

\* A join_chat of a non-participant is suspended at its access check.
DeniedJoinPending(t) ==
    /\ t \in tasks
    /\ t.kind = "join_chat"
    /\ t.pc = "access"
    /\ NonParticipant(t)

\* C7: the step that resolves the access check of a non-participant's
\* join_chat (the store answering) emits the one error "Access denied to chat
\* room" to the caller and changes nothing else: no chat_joined, no
\* messages_read, no broadcast group, no activeChatRooms entry, no read flag.
C7_DeniedJoinChangesNothing ==
    [][\A t \in tasks :
          ( /\ DeniedJoinPending(t)
            /\ t \notin tasks'
            /\ ~StoreFailed(t.seq)' )
          => /\ inbox' = [inbox EXCEPT ![t.conn] =
                             Append(@, ErrorEv("Access denied to chat room", t.seq))]
             /\ tasks' = tasks \ {t}
             /\ UNCHANGED <<activeUsers, socketRooms, activeChatRooms, chats>>]_vars

\* Witness of C7: a non-participant's join_chat was denied while another
\* connection is joined to the room.
C7_Witness ==
    \E i \in 1..Len(reqs) :
        /\ reqs[i].kind = "join_chat"
        /\ NonParticipant(reqs[i])
        /\ EventsFor(reqs[i].conn, i) = <<ErrorEv("Access denied to chat room", i)>>
        /\ InChannel(reqs[i].chatId) # {}

\* A message stored by client event i.
Stored(i) ==
    \E n \in 1..Len(chats) : \E m \in 1..Len(chats[n].messages) :
        chats[n].messages[m].req = i

\* C4: a send_message whose content is missing, blank or longer than 1000
\* characters gives its sender exactly one event, an error, and nothing else
\* happens: nothing stored, no new_message, no message_sent, no handler left
\* suspended; a content of exactly 1000 characters passes both content checks.
C4_InvalidContentRejected ==
    \A i \in 1..Len(reqs) :
        reqs[i].kind = "send_message" =>
            /\ ~ValidContent(reqs[i].content) =>
                  /\ Len(EventsFor(reqs[i].conn, i)) = 1
                  /\ EventsFor(reqs[i].conn, i)[1].type = "error"
                  /\ \A c \in Conns \ {reqs[i].conn} : EventsFor(c, i) = <<>>
                  /\ Finished(i)
                  /\ ~Stored(i)
            /\ ( /\ ValidContent(reqs[i].content)
                 /\ Length(reqs[i].content) = 1000 ) =>
                  \A k \in 1..Len(inbox[reqs[i].conn]) :
                      inbox[reqs[i].conn][k].req = i =>
                          inbox[reqs[i].conn][k].text \notin
                              {"Message content cannot be empty",
                               "Message too long. Maximum 1000 characters."}

\* Witness of C4: a content of 1001 characters was refused with an error and
\* one of 1000 characters was stored.
C4_Witness ==
    \E i \in 1..Len(reqs), j \in 1..Len(reqs) :
        /\ reqs[i].kind = "send_message"
        /\ Length(reqs[i].content) = 1001
        /\ Len(EventsFor(reqs[i].conn, i)) = 1
        /\ reqs[j].kind = "send_message"
        /\ Length(reqs[j].content) = 1000
        /\ Stored(j)

\* The sends of the same user the limiter recorded during the window that
\* ends at client event i.
CountedBefore(i) ==
    {j \in 1..(i - 1) :
        /\ reqs[j].kind = "send_message"
        /\ userOf(reqs[j].conn) = userOf(reqs[i].conn)
        /\ ValidContent(reqs[j].content)
        /\ ~RateLimited(j)
        /\ reqs[i].at - reqs[j].at < RateWindowW}

\* C5: a send_message with valid content is refused by the rate limiter exactly
\* when N sends of the same user, to whatever rooms, were allowed within the
\* window before it; a refused send gives its sender the rate-limit error and
\* nothing else happens (nothing stored, nothing broadcast).
C5_RateLimitPerSender ==
    \A i \in 1..Len(reqs) :
        (reqs[i].kind = "send_message" /\ ValidContent(reqs[i].content)) =>
            /\ RateLimited(i) <=> Cardinality(CountedBefore(i)) >= RateLimitN
            /\ RateLimited(i) =>
                  /\ \A c \in Conns :
                        EventsFor(c, i) =
                            IF c = reqs[i].conn
                            THEN <<ErrorEv("Message rate limit exceeded. Please slow down.", i)>>
                            ELSE <<>>
                  /\ Finished(i)
                  /\ ~Stored(i)

\* Witness of C5: after allowed sends to two different rooms a send of the same
\* user was refused, and a later send of that user was allowed again.
C5_Witness ==
    \E h \in 1..Len(reqs), i \in 1..Len(reqs), j \in 1..Len(reqs) :
        /\ h < i /\ i < j
        /\ reqs[h].conn = reqs[i].conn /\ reqs[i].conn = reqs[j].conn
        /\ \E g \in 1..(i - 1) :
              /\ reqs[g].conn = reqs[h].conn
              /\ reqs[g].chatId # reqs[h].chatId
              /\ ~RateLimited(g)
        /\ ~RateLimited(h)
        /\ RateLimited(i)
        /\ ~RateLimited(j)
        /\ Stored(j)

C9_ExistingRoomUnchanged ==
    [][\A k \in calls : (k.existed /\ k \notin calls') => chats' = chats]_vars

\* Witness of C9: a request that arrived when its pair's chat was stored has
\* been answered 200 with the chat's key.
C9_Witness ==
    \E h \in 1..Len(httpLog) :
        /\ httpLog[h].existed
        /\ httpLog[h].status = 200
        /\ \E m \in 1..Len(chats) :
              /\ chats[m].chatId = httpLog[h].chatId
              /\ Len(chats[m].messages) = 1

\* ========================================================== ChatPage claims
\* The entries of a list that carry correlation id x.
WithTempId(list, x) == {i \in 1..Len(list) : list[i].tempId = x}

\* C10: when the page handles a new_message of the open chat whose tempId is
\* that of an optimistic entry still in status sending, the entry is replaced
\* in place by the payload with status sent: the list keeps its length, holds
\* exactly one entry with that tempId, and every other entry is as before.
C10_OptimisticReplacedInPlace ==
    [][( /\ seen' = seen + 1
         /\ inbox[PageConn][seen + 1].type = "new_message"
         /\ inbox[PageConn][seen + 1].chatId = PageChat
         /\ inbox[PageConn][seen + 1].tempId # Undefined
         /\ \E i \in 1..Len(messages) :
               /\ messages[i].tempId = inbox[PageConn][seen + 1].tempId
               /\ messages[i].status = "sending" )
       => /\ Len(messages') = Len(messages)
          /\ Cardinality(WithTempId(messages', inbox[PageConn][seen + 1].tempId)) = 1
          /\ \A i \in 1..Len(messages) :
                IF messages[i].tempId = inbox[PageConn][seen + 1].tempId
                THEN /\ messages'[i].status = "sent"
                     /\ messages'[i].id = inbox[PageConn][seen + 1].msgId
                ELSE messages'[i] = messages[i]]_vars

\* Witness of C10: the page has just handled the first new_message carrying the
\* tempId of an entry, no message_sent or error having been handled, and the
\* entry is in status sent next to another entry.
C10_Witness ==
    /\ seen > 0
    /\ inbox[PageConn][seen].type = "new_message"
    /\ inbox[PageConn][seen].tempId # Undefined
    /\ \A k \in 1..seen : inbox[PageConn][k].type = "new_message"
    /\ \A k \in 1..(seen - 1) : inbox[PageConn][k].tempId # inbox[PageConn][seen].tempId
    /\ Len(messages) = 2
    /\ \E i \in 1..Len(messages) :
          /\ messages[i].tempId = inbox[PageConn][seen].tempId
          /\ messages[i].status = "sent"
          /\ messages[i].id = inbox[PageConn][seen].msgId

\* The ids of the stored messages client event i caused.
StoredIds(i) ==
    {id \in 1..nextMsgId : \E n \in 1..Len(chats) :
        \E m \in 1..Len(chats[n].messages) :
            chats[n].messages[m].id = id /\ chats[n].messages[m].req = i}

\* The entries of the page's list that stand for client event i: the optimistic
\* entry with its tempId, and any entry with the id of its stored message.
EntriesOf(i) ==
    {m \in 1..Len(messages) :
        messages[m].tempId = reqs[i].tempId \/ messages[m].id \in StoredIds(i)}

\* C2: once a submit of the page has been stored and every event it caused has
\* been handled, user 1's socket has received one new_message with the content
\* and sender 2, the page's socket has received message_sent with the submit's
\* tempId, and the page's list holds exactly one entry for the submit, in
\* status sent.
C2_OneSentEntryPerSubmit ==
    \A i \in 1..Len(reqs) :
        ( /\ reqs[i].kind = "send_message"
          /\ reqs[i].conn = PageConn
          /\ Stored(i)
          /\ Finished(i)
          /\ seen = Len(inbox[PageConn]) )
        => /\ Len(EventsFor("s2", i)) = 1
           /\ EventsFor("s2", i)[1].type = "new_message"
           /\ EventsFor("s2", i)[1].content = reqs[i].content
           /\ EventsFor("s2", i)[1].sender = userOf(PageConn)
           /\ \E k \in 1..Len(inbox[PageConn]) :
                 /\ inbox[PageConn][k].type = "message_sent"
                 /\ inbox[PageConn][k].req = i
                 /\ inbox[PageConn][k].tempId = reqs[i].tempId
           /\ Cardinality(EntriesOf(i)) = 1
           /\ \A m \in EntriesOf(i) : messages[m].status = "sent"

\* The broadcast and the confirmation a gateway echoing tempId x would send for
\* the page's submit x stored under id.
BroadcastOf(x, id) ==
    Ev("new_message", PageChat, id, x, userOf(PageConn), Hello, "", 0)

ConfirmationOf(x, id) == Ev("message_sent", NoChat, id, x, 0, NoContent, "", 0)

\* C11: for a list holding an optimistic entry with tempId x in status sending
\* and either persistent id, handling message_sent(x) and then
\* new_message(x) gives the same list as handling them in the other order, and
\* that list holds exactly one entry with tempId x, with the persistent id and
\* status sent.
C11_ConfirmationOrderIrrelevant ==
    \A m \in 1..Len(messages) : \A id \in {1, 2} :
        (messages[m].tempId # Undefined /\ messages[m].status = "sending")
        => LET x == messages[m].tempId
               broadcastFirst ==
                   OnMessageSent(OnNewMessage(messages, BroadcastOf(x, id)),
                                 ConfirmationOf(x, id))
               confirmFirst ==
                   OnNewMessage(OnMessageSent(messages, ConfirmationOf(x, id)),
                                BroadcastOf(x, id))
           IN /\ broadcastFirst = confirmFirst
              /\ Len(broadcastFirst) = Len(messages)
              /\ WithTempId(broadcastFirst, x) = {m}
              /\ broadcastFirst[m].id = id
              /\ broadcastFirst[m].status = "sent"

\* Witness of C11: the page has handled message_sent and then new_message for
\* the same tempId and id as its last two events, and the entry with that
\* tempId carries the id and status sent while another entry is in the list.
C11_Witness ==
    /\ seen >= 2
    /\ inbox[PageConn][seen - 1].type = "message_sent"
    /\ inbox[PageConn][seen].type = "new_message"
    /\ inbox[PageConn][seen].tempId # Undefined
    /\ inbox[PageConn][seen].tempId = inbox[PageConn][seen - 1].tempId
    /\ inbox[PageConn][seen].msgId = inbox[PageConn][seen - 1].msgId
    /\ \A k \in 1..(seen - 2) : inbox[PageConn][k].tempId = Undefined
    /\ Len(messages) = 2
    /\ \E m \in 1..Len(messages) :
          /\ messages[m].tempId = inbox[PageConn][seen].tempId
          /\ messages[m].id = inbox[PageConn][seen].msgId
          /\ messages[m].status = "sent"

\* The stored message with id that client event i caused.
StoredAs(i, id) ==
    \E n \in 1..Len(chats) : \E m \in 1..Len(chats[n].messages) :
        chats[n].messages[m].id = id /\ chats[n].messages[m].req = i

\* C12: every new_message a connection has received is that of a message the
\* store holds, and a send_message whose handler failed at an awaited store
\* call has stored nothing, has caused no new_message and no message_sent at
\* any connection, and has given its sender exactly one event, the error.
C12_BroadcastOnlyAfterPersist ==
    /\ \A c \in Conns : \A k \in 1..Len(inbox[c]) :
          inbox[c][k].type = "new_message"
          => StoredAs(inbox[c][k].req, inbox[c][k].msgId)
    /\ \A i \in 1..Len(reqs) :
          (reqs[i].kind = "send_message" /\ StoreFailed(i))
          => /\ ~Stored(i)
             /\ \A c \in Conns :
                   EventsFor(c, i) =
                       IF c = reqs[i].conn
                       THEN <<ErrorEv("Failed to send message", i)>>
                       ELSE <<>>

\* Witness of C12: saveMessageToDatabase rejected for a participant's
\* send_message to a room another connection is joined to, and the sender has
\* received the error.
C12_Witness ==
    \E i \in 1..Len(reqs) :
        /\ reqs[i].kind = "send_message"
        /\ <<i, "save">> \in failed
        /\ InChannel(reqs[i].chatId) \ {reqs[i].conn} # {}
        /\ EventsFor(reqs[i].conn, i) = <<ErrorEv("Failed to send message", i)>>

\* The events connection c receives in the step.
NewEvents(c) == SubSeq(inbox'[c], Len(inbox[c]) + 1, Len(inbox'[c]))

\* The step emits an error event to some connection.
ErrorStep ==
    \E c \in Conns : \E k \in 1..Len(NewEvents(c)) : NewEvents(c)[k].type = "error"

\* C13: an error event goes to the connection that sent the event whose
\* handler emits it and to no other connection, and the step that emits it
\* leaves the connection registry, the room broadcast groups and
\* activeChatRooms as they are and ends no handler but the one that failed,
\* so that connection's later events are handled as any other.
C13_ErrorsOnlyToInitiator ==
    [][ErrorStep
        => /\ \A c \in Conns : \A k \in 1..Len(NewEvents(c)) :
                 NewEvents(c)[k].type = "error"
                 => /\ reqs'[NewEvents(c)[k].req].conn = c
                    /\ \A d \in Conns \ {c} : NewEvents(d) = <<>>
                    /\ NewEvents(c) = <<NewEvents(c)[k]>>
                    /\ \A t \in tasks \ tasks' : t.seq = NewEvents(c)[k].req
           /\ UNCHANGED <<activeUsers, socketRooms, activeChatRooms>>]_vars

\* Witness of C13: a connection received an error for one of its events, and
\* its next event, a join_chat, was confirmed with chat_joined.
C13_Witness ==
    \E h, i \in 1..Len(reqs) :
        /\ NextOfConn(h, i)
        /\ Count(reqs[h].conn, h, "error") = 1
        /\ reqs[i].kind = "join_chat"
        /\ Count(reqs[i].conn, i, "chat_joined") = 1
        /\ reqs[i].conn \in activeUsers

\* The place of the message with id in the stored sequence of chat chatId, 0
\* when it is not there.
StorePlace(chatId, id) ==
    IF FindOne(chatId) = 0 THEN 0
    ELSE LET ms == chats[FindOne(chatId)].messages
         IN IF \E m \in 1..Len(ms) : ms[m].id = id
            THEN CHOOSE m \in 1..Len(ms) : ms[m].id = id
            ELSE 0

\* C14: at every connection joined to a room, the new_message events of that
\* room arrive in the order in which the store holds their messages, also when
\* sends of different connections are in flight together.
C14_BroadcastInPersistedOrder ==
    \A c \in Conns : \A k, l \in 1..Len(inbox[c]) :
        ( /\ k < l
          /\ inbox[c][k].type = "new_message"
          /\ inbox[c][l].type = "new_message"
          /\ inbox[c][k].chatId = inbox[c][l].chatId )
        => StorePlace(inbox[c][k].chatId, inbox[c][k].msgId)
               < StorePlace(inbox[c][l].chatId, inbox[c][l].msgId)

\* The disconnect handler has run for connection c.
Disconnected(c) ==
    \E i \in 1..Len(reqs) : reqs[i].kind = "disconnect" /\ reqs[i].conn = c

\* Connection c is in the bookkeeping of some chat room.
InSomeActiveRoom(c) == \E k \in DOMAIN activeChatRooms : c \in activeChatRooms[k]

\* C15: once the disconnect handler has run for a connection, the connection
\* is not in activeUsers, in no set of activeChatRooms and in no room broadcast
\* group, in every later state, also when a join_chat of the connection was
\* awaiting its access check at the disconnect.
C15_DisconnectedStaysOut ==
    \A c \in Conns :
        Disconnected(c)
        => /\ c \notin activeUsers
           /\ ~InSomeActiveRoom(c)
           /\ socketRooms[c] = {}

\* Connection c is a member of room k: in its broadcast group or in its
\* activeChatRooms set.
MemberOf(c, k) ==
    \/ k \in socketRooms[c]
    \/ (k \in DOMAIN activeChatRooms /\ c \in activeChatRooms[k])

\* Client event i is the last join_chat or leave_chat of its connection for
\* its room.
LastForRoom(i) ==
    \A j \in (i + 1)..Len(reqs) :
        ~ ( /\ reqs[j].conn = reqs[i].conn
            /\ reqs[j].chatId = reqs[i].chatId
            /\ reqs[j].kind \in {"join_chat", "leave_chat"} )

\* C16: a connection's join_chat for a room followed by its leave_chat for the
\* same room, with no later join_chat: once the join_chat handler has finished
\* without a store failure the connection is not a member of the room and has received no new_message
\* of a send_message that arrived after the leave_chat.
C16_JoinThenLeaveEndsOutside ==
    \A h, i \in 1..Len(reqs) :
        ( /\ h < i
          /\ reqs[h].kind = "join_chat"
          /\ reqs[i].kind = "leave_chat"
          /\ reqs[i].conn = reqs[h].conn
          /\ reqs[i].chatId = reqs[h].chatId
          /\ LastForRoom(i)
          /\ Finished(h)
          /\ ~StoreFailed(h) )
        => /\ ~MemberOf(reqs[i].conn, reqs[i].chatId)
           /\ \A k \in 1..Len(inbox[reqs[i].conn]) :
                 ~ ( /\ inbox[reqs[i].conn][k].type = "new_message"
                     /\ inbox[reqs[i].conn][k].chatId = reqs[i].chatId
                     /\ inbox[reqs[i].conn][k].req > i )

\* C17: a finished join_chat of a connection that is still connected, the
\* connection's only join_chat or leave_chat for the room, has given its caller
\* exactly one event, chat_joined or error, and when it is error the connection
\* is not a member of the room.
C17_JoinConfirmsOrLeavesOutside ==
    \A i \in 1..Len(reqs) :
        ( /\ reqs[i].kind = "join_chat"
          /\ Finished(i)
          /\ reqs[i].conn \in activeUsers
          /\ LastForRoom(i)
          /\ \A h \in 1..(i - 1) : LastForRoom(h) \/ reqs[h].conn # reqs[i].conn )
        => /\ Len(EventsFor(reqs[i].conn, i)) = 1
           /\ EventsFor(reqs[i].conn, i)[1].type \in {"chat_joined", "error"}
           /\ EventsFor(reqs[i].conn, i)[1].type = "error"
              => ~MemberOf(reqs[i].conn, reqs[i].chatId)

\* The messages of chat chatId that are not from userId and not yet read.
UnreadFor(chatId, userId) ==
    {id \in 1..nextMsgId :
        \E n \in 1..Len(chats) : \E m \in 1..Len(chats[n].messages) :
            /\ chats[n].chatId = chatId
            /\ chats[n].messages[m].id = id
            /\ chats[n].messages[m].sender # userId
            /\ ~chats[n].messages[m].isRead}

\* The step ends join_chat task t with its confirmation.
JoinConfirmed(t) ==
    /\ t.kind = "join_chat" /\ t.pc = "save"
    /\ t \notin tasks'
    /\ ~StoreFailed(t.seq)'

\* C18: join_chat flags the joiner's unread messages of the loaded chat, and
\* when the save resolves they are stored as read and nothing else in the store
\* changes, every other connected member of the room receives one
\* messages_read naming the room and the joiner, the joiner receives one
\* chat_joined and no messages_read, and no other connection receives
\* anything.
C18_JoinMarksReadAndConfirms ==
    [][\A t \in tasks :
          /\ ( /\ t.kind = "join_chat" /\ t.pc = "find"
               /\ \E u \in tasks' : u.seq = t.seq /\ u.pc = "save" )
             => \E u \in tasks' :
                   /\ u.seq = t.seq
                   /\ u.ids = UnreadFor(t.chatId, userOf(t.conn))
          /\ JoinConfirmed(t)
             => /\ \A n \in 1..Len(chats) : \A m \in 1..Len(chats[n].messages) :
                      chats'[n].messages[m] =
                          IF chats[n].chatId = t.chatId
                             /\ chats[n].messages[m].id \in t.ids
                          THEN [chats[n].messages[m] EXCEPT !.isRead = TRUE]
                          ELSE chats[n].messages[m]
                /\ \A c \in Conns :
                      NewEvents(c) =
                          IF c \notin activeUsers THEN <<>>
                          ELSE IF c = t.conn
                          THEN <<Ev("chat_joined", t.chatId, 0, Undefined, 0,
                                    NoContent, "", t.seq)>>
                          ELSE IF t.chatId \in socketRooms[c]
                          THEN <<Ev("messages_read", t.chatId, 0, Undefined,
                                    userOf(t.conn), NoContent, "", t.seq)>>
                          ELSE <<>>]_vars

\* Witness of C18: a join_chat was confirmed to its caller, a message of
\* another user in that room is stored as read, and another connection of the
\* room has received the messages_read of that join.
C18_Witness ==
    \E i \in 1..Len(reqs) :
        /\ reqs[i].kind = "join_chat"
        /\ Count(reqs[i].conn, i, "chat_joined") = 1
        /\ \E n \in 1..Len(chats) : \E m \in 1..Len(chats[n].messages) :
              /\ chats[n].chatId = reqs[i].chatId
              /\ chats[n].messages[m].sender # userOf(reqs[i].conn)
              /\ chats[n].messages[m].isRead
        /\ \E d \in Conns \ {reqs[i].conn} : Count(d, i, "messages_read") = 1

\* C19: when the access check of a mark_messages_read resolves for a user who
\* is not a participant of the room, the handler ends there: the store, every
\* connection's events, the registry and the room groups are as before.
C19_DeniedMarkReadIsSilent ==
    [][\A t \in tasks :
          ( /\ t.kind = "mark_messages_read" /\ t.pc = "access"
            /\ ~validateChatAccess(t.chatId, userOf(t.conn))
            /\ t \notin tasks'
            /\ ~StoreFailed(t.seq)' )
          => /\ chats' = chats
             /\ inbox' = inbox
             /\ tasks' = tasks \ {t}
             /\ UNCHANGED <<activeUsers, socketRooms, activeChatRooms>>]_vars

\* Witness of C19: a non-participant's mark_messages_read on a room that
\* holds an unread message has ended without a store failure; no connection
\* has an event of it and the message is still unread.
C19_Witness ==
    \E i \in 1..Len(reqs) :
        /\ reqs[i].kind = "mark_messages_read"
        /\ NonParticipant(reqs[i])
        /\ Finished(i)
        /\ ~StoreFailed(i)
        /\ \A c \in Conns : EventsFor(c, i) = <<>>
        /\ UnreadFor(reqs[i].chatId, userOf(reqs[i].conn)) # {}

\* The step is the handler of a typing_start or typing_stop event.
TypingStep ==
    /\ Len(reqs') = Len(reqs) + 1
    /\ reqs'[Len(reqs')].kind \in {"typing_start", "typing_stop"}

\* C20: the handler of typing_start (typing_stop) gives every other connection
\* joined to the room one user_typing (user_stop_typing) naming the emitting
\* user, gives the emitting connection and the connections outside the room
\* nothing, and leaves the store, the registry, the room groups and the
\* suspended handlers as they are.
C20_TypingRelayedToOthersOnly ==
    [][TypingStep
        => LET r == reqs'[Len(reqs')]
           IN /\ \A c \in Conns :
                    NewEvents(c) =
                        IF c # r.conn /\ r.chatId \in socketRooms[c]
                        THEN <<Ev(IF r.kind = "typing_start" THEN "user_typing"
                                  ELSE "user_stop_typing",
                                  NoChat, 0, Undefined, userOf(r.conn), NoContent,
                                  "", Len(reqs'))>>
                        ELSE <<>>
              /\ UNCHANGED <<chats, nextMsgId, messageRequests>>
              /\ UNCHANGED <<activeUsers, socketRooms, activeChatRooms, tasks>>]_vars

\* Witness of C20: a connection joined to a room has reported typing_stop in
\* it; another connection of the room has the user_stop_typing and the
\* reporting connection has no event of it.
C20_Witness ==
    \E i \in 1..Len(reqs) :
        /\ reqs[i].kind = "typing_stop"
        /\ reqs[i].chatId \in socketRooms[reqs[i].conn]
        /\ EventsFor(reqs[i].conn, i) = <<>>
        /\ \E d \in Conns \ {reqs[i].conn} : Count(d, i, "user_stop_typing") = 1

\* C21: a join_chat, send_message, mark_messages_read, typing_start or
\* typing_stop that names a room its user is not a participant of causes no
\* event at any other connection, so none at a connection joined to the room.
C21_NonParticipantReachesNoMember ==
    \A i \in 1..Len(reqs) :
        ( /\ reqs[i].kind \in {"join_chat", "send_message", "mark_messages_read",
                               "typing_start", "typing_stop"}
          /\ NonParticipant(reqs[i]) )
        => \A c \in Conns \ {reqs[i].conn} : EventsFor(c, i) = <<>>

\* Connection c was refused at its handshake.
Refused(c) ==
    \E k \in 1..Len(inbox[c]) : inbox[c][k].type = "connect_error"

\* Connection c has made its handshake and it is decided.
HandshakeDecided(c) ==
    Shaken(c) /\ \A t \in tasks : ~(t.kind = "handshake" /\ t.conn = c)

\* C22: until its handshake is decided, and for good when it was refused, a
\* connection is not in activeUsers, is in no channel, and no event of it is
\* accepted. A handshake with no token, a token that does not verify, or the
\* token of an inactive or missing user is refused when it is decided; a
\* decided handshake that was not refused carried a token of the connection's
\* active user and has registered the connection and joined it to the personal
\* channel of that user.
C22_OnlyAuthenticatedConnections ==
    \A c \in Conns :
        /\ (~HandshakeDecided(c) \/ Refused(c))
           => /\ c \notin activeUsers
              /\ socketRooms[c] = {}
              /\ ~InSomeActiveRoom(c)
              /\ \A i \in 1..Len(reqs) :
                    reqs[i].conn = c => reqs[i].kind = "handshake"
        /\ \A i \in 1..Len(reqs) :
              (reqs[i].kind = "handshake" /\ reqs[i].conn = c /\ HandshakeDecided(c))
              => /\ ( \/ reqs[i].token.kind # "good"
                      \/ reqs[i].token.id \in {InactiveUser, MissingUser} )
                    => Refused(c)
                 /\ ~Refused(c)
                    => /\ reqs[i].token = GoodToken(userOf(c))
                       /\ c \in activeUsers
                       /\ PersonalChannel(userOf(c)) \in socketRooms[c]

\* Witness of C22: one connection was refused for an inactive or missing
\* user, one for a missing token, and the third is registered, in its
\* personal channel and has joined R1.
C22_Witness ==
    /\ \E c \in Conns : \E k \in 1..Len(inbox[c]) :
          /\ inbox[c][k].text = "User not found or inactive"
          /\ reqs[inbox[c][k].req].token.id \in {InactiveUser, MissingUser}
    /\ \E c \in Conns : \E k \in 1..Len(inbox[c]) :
          inbox[c][k].text = "Authentication token required"
    /\ \E c \in activeUsers : {PersonalChannel(userOf(c)), R1} \subseteq socketRooms[c]

\* C23: whenever the page has emitted send_message and isSending is set, the
\* flag is cleared later on, whatever the server sends or does not send; the
\* step of the 5-second timer changes neither the message list nor the
\* send_message events the page has emitted.
C23_TimerClearsSending ==
    /\ (isSending ~> ~isSending)
    /\ [][TiTimer => (~isSending' /\ messages' = messages /\ sent' = sent)]_vars

\* Witness of C23: the page has submitted once, no event has reached it, the
\* timer has fired: the flag is cleared, the optimistic entry is still in the
\* list with status 'sending', and one send_message was emitted.
C23_Witness ==
    /\ Len(sent) = 1
    /\ inbox[PageConn] = <<>>
    /\ timers = {}
    /\ ~isSending
    /\ Len(messages) = 1
    /\ messages[1].tempId = sent[1].tempId
    /\ messages[1].status = "sending"

\* The entries of a list that carry correlation id x.
EntriesFor(list, x) == SelectSeq(list, LAMBDA m : m.tempId = x)

\* C24: when the page handles message_sent for a correlation id X it holds an
\* entry for, then, whether the timer of X is still pending or has fired and
\* whether the entry was confirmed before or not, the list afterwards has
\* exactly one entry for X, with the confirmed id, the confirmed timestamp and
\* status 'sent', every other entry is as before, and applying the same
\* message_sent once more changes nothing.
C24_ConfirmationIdempotent ==
    [][ (/\ PageReceive
         /\ inbox[PageConn][seen + 1].type = "message_sent"
         /\ inbox[PageConn][seen + 1].tempId # Undefined
         /\ EntriesFor(messages, inbox[PageConn][seen + 1].tempId) # <<>>)
        => LET d == inbox[PageConn][seen + 1]
           IN /\ Len(EntriesFor(messages', d.tempId)) = 1
              /\ EntriesFor(messages', d.tempId)[1].id = d.msgId
              /\ EntriesFor(messages', d.tempId)[1].timestamp = d.timestamp
              /\ EntriesFor(messages', d.tempId)[1].status = "sent"
              /\ Len(messages') = Len(messages)
              /\ \A i \in 1..Len(messages) :
                    messages[i].tempId # d.tempId => messages'[i] = messages[i]
              /\ OnMessageSent(messages', d) = messages'
              /\ OnMessageSent(OnMessageSent(messages, d), d) = OnMessageSent(messages, d)
      ]_vars

\* Witness of C24: the timer of the only submit has fired and the page has
\* handled the same message_sent twice; its list holds the one confirmed entry.
C24_Witness ==
    /\ Len(sent) = 1
    /\ timers = {}
    /\ seen = 2
    /\ inbox[PageConn][1] = ConfirmationOf(sent[1].tempId, 1)
    /\ inbox[PageConn][2] = ConfirmationOf(sent[1].tempId, 1)
    /\ Len(messages) = 1
    /\ messages[1].id = 1
    /\ messages[1].status = "sent"
    /\ messages[1].timestamp = SavedStamp(1)

\* The page handles an error event in this step.
PageErrorStep == PageReceive /\ inbox[PageConn][seen + 1].type = "error"

\* The entries of the list that are optimistic and not yet confirmed.
Pending(list) == SelectSeq(list, LAMBDA m : m.status = "sending")

\* C25: when the page handles an error event while its list holds an
\* optimistic entry that is not confirmed, the list afterwards holds no such
\* entry, isSending is cleared, and the page has emitted no send_message.
C25_ErrorDropsPending ==
    [][ (PageErrorStep /\ Pending(messages) # <<>>)
        => /\ Pending(messages') = <<>>
           /\ Len(messages') < Len(messages)
           /\ ~isSending'
           /\ sent' = sent
      ]_vars

\* Witness of C25: the page submitted once and, before the timer fired, handled
\* an error event: the list is empty, the flag is cleared, one send_message was
\* emitted.
C25_Witness ==
    /\ Len(sent) = 1
    /\ timers = {sent[1].tempId}
    /\ seen = 1
    /\ inbox[PageConn] = <<ErrorEv("Failed to send message", 0)>>
    /\ messages = <<>>
    /\ ~isSending

\* C26: when the page handles an error event, every entry of its list other
\* than the optimistic entry of the send_message the error answers is still in
\* the list afterwards, at its place relative to the others.
C26_ErrorRemovesOnlyItsSend ==
    [][ PageErrorStep
        => LET d == inbox[PageConn][seen + 1]
               answered == IF d.req \in 1..Len(reqs) /\ reqs[d.req].kind = "send_message"
                           THEN reqs[d.req].tempId ELSE Undefined
           IN messages' = SelectSeq(messages,
                              LAMBDA m : ~(m.status = "sending" /\ m.tempId = answered))
      ]_vars

\* The page has emitted join_chat for its chat.
JoinEmitted == \E i \in 1..Len(pageEmits) : pageEmits[i] = PageEmit("join_chat")

\* C27: whenever the page is not loading, it has emitted join_chat for its chat
\* and a history fetch has completed.
C27_ReadyOnlyAfterJoin ==
    ~loading => (JoinEmitted /\ \E n \in 1..Len(chains) : chains[n] = "done")

\* The status of the stored chat with this key.
StatusOf(chatId) == chats[FindOne(chatId)].status

\* C28: a direct chat enters the collection with status 'pending'; a step
\* makes it 'active' only as the save of an acceptDirectRequest of a lawyer who
\* is one of its participants; an 'active' chat stays 'active'; and an
\* acceptDirectRequest of a lawyer who is not a participant answers 404 and
\* changes no chat.
C28_PendingUntilAccepted ==
    [][ /\ \A i \in 1..Len(chats') :
              chats'[i].chatType = "direct"
              => /\ i > Len(chats) => chats'[i].status = "pending"
                 /\ (i <= Len(chats) /\ chats[i].status = "active")
                    => chats'[i].status = "active"
                 /\ (i <= Len(chats) /\ chats[i].status # "active"
                        /\ chats'[i].status = "active")
                    => \E k \in calls :
                          /\ AcceptSaveDone(k)
                          /\ k.chatId = chats[i].chatId
                          /\ roleOf(k.user) = "lawyer"
                          /\ k.user \in chats[i].participants
        /\ \A k \in calls :
              (/\ AcceptFindDone(k)
               /\ FindOne(k.chatId) # 0
               /\ k.user \notin chats[FindOne(k.chatId)].participants)
              => /\ httpLog' = Respond(k, 404, k.chatId)
                 /\ calls' = calls \ {k}
                 /\ chats' = chats
      ]_vars

\* Witness of C28: lawyer 3, no participant, was answered 404 while the chat
\* was stored; lawyer 1 was answered 200 and the chat is active.
C28_Witness ==
    /\ FindOne(DirectChatId(2, 1)) # 0
    /\ StatusOf(DirectChatId(2, 1)) = "active"
    /\ \E i \in 1..Len(httpLog) :
          httpLog[i].user = 3 /\ httpLog[i].status = 404 /\ httpLog[i].existed
    /\ \E i \in 1..Len(httpLog) :
          httpLog[i].user = 1 /\ httpLog[i].status = 200

\* C29: while the direct chat of users 2 and 1 is stored with status 'pending',
\* it holds no message a send_message stored and no connection has received
\* new_message or message_sent for a send_message to it.
C29_NoGatewayMessagesWhilePending ==
    (FindOne(DirectChatId(2, 1)) # 0 /\ StatusOf(DirectChatId(2, 1)) = "pending")
    => /\ \A m \in 1..Len(chats[FindOne(DirectChatId(2, 1))].messages) :
             chats[FindOne(DirectChatId(2, 1))].messages[m].req = 0
       /\ \A c \in Conns : \A i \in 1..Len(inbox[c]) :
             inbox[c][i].type \notin {"new_message", "message_sent"}

\* The place in the stored sequence of chat chatId of the message client event
\* i stored, 0 when there is none.
StorePlaceOfReq(chatId, i) ==
    IF FindOne(chatId) = 0 THEN 0
    ELSE LET ms == chats[FindOne(chatId)].messages
         IN IF \E m \in 1..Len(ms) : ms[m].req = i
            THEN CHOOSE m \in 1..Len(ms) : ms[m].req = i
            ELSE 0

\* C30: of two send_message events of one connection to one room, the later
\* one's message is never stored before the earlier one's, whether or not the
\* earlier one is stored yet, and no connection receives the later one's
\* new_message before the earlier one's.
C30_SameConnectionSendsKeepOrder ==
    \A i, j \in 1..Len(reqs) :
        ( /\ i < j
          /\ reqs[i].kind = "send_message"
          /\ reqs[j].kind = "send_message"
          /\ reqs[i].conn = reqs[j].conn
          /\ reqs[i].chatId = reqs[j].chatId )
        => /\ StorePlaceOfReq(reqs[j].chatId, j) # 0
              => /\ StorePlaceOfReq(reqs[i].chatId, i) # 0
                 /\ StorePlaceOfReq(reqs[i].chatId, i) < StorePlaceOfReq(reqs[j].chatId, j)
           /\ \A c \in Conns : \A k, l \in 1..Len(inbox[c]) :
                 ( /\ inbox[c][k].type = "new_message" /\ inbox[c][k].req = j
                   /\ inbox[c][l].type = "new_message" /\ inbox[c][l].req = i )
                 => l < k

\* C31: a step that emits new_message for a send_message is taken only while
\* the sender is a participant of the room, also when the sender's access was
\* taken away after the handler's access check.
C31_BroadcastOnlyWhileMember ==
    [][ \A c \in Conns : \A k \in 1..Len(NewEvents(c)) :
            NewEvents(c)[k].type = "new_message"
            => validateChatAccess(NewEvents(c)[k].chatId,
                                  userOf(reqs[NewEvents(c)[k].req].conn))
      ]_vars

\* The requests of user u to lawyer l that are stored and younger than an hour.
RecentRequests(u, l) ==
    {i \in 1..Len(messageRequests[u]) :
        /\ messageRequests[u][i].toUserId = l
        /\ now - messageRequests[u][i].timestamp < HourTicks}

\* C32: when sendDirectMessageRequest checks the limit, it answers 429 exactly
\* when two or more stored requests of the citizen to that same lawyer are
\* younger than an hour, whatever was asked of other lawyers; the 429 step
\* changes neither the stored requests nor any chat; otherwise the request goes
\* on to record itself, also after an earlier 429.
C32_MessageRequestLimit ==
    [][ \A k \in calls :
            DmFindCitizenDone(k)
            => IF Cardinality(RecentRequests(k.user, k.lawyerId)) >= 2
               THEN /\ httpLog' = Respond(k, 429, NoChat)
                    /\ calls' = calls \ {k}
                    /\ messageRequests' = messageRequests
                    /\ chats' = chats
               ELSE /\ httpLog' = httpLog
                    /\ \E k2 \in calls' :
                          /\ k2.n = k.n
                          /\ k2.pc = "saveCitizen"
                          /\ Len(SelectSeq(k2.loaded, LAMBDA r : r.toUserId = k.lawyerId))
                                = Cardinality(RecentRequests(k.user, k.lawyerId)) + 1
      ]_vars

\* Witness of C32: a request to lawyer 1 was answered 429, a later one to
\* lawyer 1 was answered 200, and no chat but the one the first request created
\* was added.
C32_Witness ==
    /\ \E i, j \in 1..Len(httpLog) :
          /\ i < j
          /\ httpLog[i].lawyerId = 1 /\ httpLog[i].status = 429
          /\ httpLog[j].lawyerId = 1 /\ httpLog[j].status = 200
    /\ Len(chats) = Len(InitChats) + 1

\* The requests of citizen u to lawyer l that were answered 200.
AcceptedRequests(u, l) ==
    {i \in 1..Len(httpLog) :
        httpLog[i].user = u /\ httpLog[i].lawyerId = l /\ httpLog[i].status = 200}

\* C33: while less than an hour has passed since the first request, at most
\* two requests of the citizen to one lawyer have been accepted, also when the
\* requests run concurrently.
C33_AtMostTwoAcceptedPerHour ==
    now < HourTicks
    => \A l \in Users : Cardinality(AcceptedRequests(2, l)) <= MessageRequestLimit

\* C34: every new_message a connection has received is of a stored chat that
\* the connection's user is a participant of, and only participants' sockets
\* are in the broadcast group of a stored chat.
C34_MessagesOnlyToParticipants ==
    /\ \A c \in Conns : \A i \in 1..Len(inbox[c]) :
          inbox[c][i].type = "new_message"
          => validateChatAccess(inbox[c][i].chatId, userOf(c))
    /\ \A c \in Conns : \A n \in 1..Len(chats) :
          chats[n].chatId \in socketRooms[c] => userOf(c) \in chats[n].participants

\* Witness of C34: user 2 has received a new_message of R1 on s1, and user 3
\* was refused both a join_chat and a send_message with the key of R1.
C34_Witness ==
    /\ \E i \in 1..Len(inbox["s1"]) :
          inbox["s1"][i].type = "new_message" /\ inbox["s1"][i].chatId = R1
    /\ \E i \in 1..Len(reqs) :
          /\ reqs[i].conn = "s3" /\ reqs[i].chatId = R1 /\ reqs[i].kind = "join_chat"
          /\ EventsFor("s3", i) = <<ErrorEv("Access denied to chat room", i)>>

\* The messages client event i stored in a Chat collection, as (chat, place)
\* pairs.
StoredIn(cs, i) ==
    UNION {{<<n, m>> : m \in {x \in 1..Len(cs[n].messages) : cs[n].messages[x].req = i}} :
              n \in 1..Len(cs)}

StoredBy(i) == StoredIn(chats, i)

\* The replies client event i caused at its own connection.
Replies(i) == Count(reqs[i].conn, i, "error") + Count(reqs[i].conn, i, "message_sent")

\* C35: a send_message has no reply while its handler is suspended and exactly
\* one, an error or a message_sent, once the handler has ended; a message_sent
\* goes with exactly one stored message of that event and an error with none;
\* no connection has more than one new_message of the event; and the step that
\* emits the message_sent stores the message and gives every socket of the
\* room's broadcast group exactly one new_message of the event.
C35_ExactlyOneReply ==
    /\ [](\A i \in 1..Len(reqs) :
            reqs[i].kind = "send_message"
            => /\ Replies(i) = (IF Finished(i) THEN 1 ELSE 0)
               /\ Count(reqs[i].conn, i, "message_sent") = Cardinality(StoredBy(i))
               /\ \A c \in Conns : Count(c, i, "new_message") <= Cardinality(StoredBy(i)))
    /\ [][ \A c \in Conns : \A k \in 1..Len(NewEvents(c)) :
              NewEvents(c)[k].type = "message_sent"
              => /\ StoredBy(NewEvents(c)[k].req) = {}
                 /\ Cardinality(StoredIn(chats', NewEvents(c)[k].req)) = 1
                 /\ \A d \in Conns :
                       Len(SelectSeq(NewEvents(d),
                               LAMBDA e : e.type = "new_message"
                                          /\ e.req = NewEvents(c)[k].req))
                          = (IF d \in InChannel(reqs[NewEvents(c)[k].req].chatId)
                             THEN 1 ELSE 0)
         ]_vars

\* Witness of C35: one send_message was answered by message_sent with its
\* message stored and broadcast, another one by an error with nothing stored.
C35_Witness ==
    \E i, j \in 1..Len(reqs) :
        /\ reqs[i].kind = "send_message" /\ reqs[j].kind = "send_message"
        /\ Count(reqs[i].conn, i, "message_sent") = 1
        /\ Count(reqs[i].conn, i, "error") = 0
        /\ Cardinality(StoredBy(i)) = 1
        /\ Count(reqs[j].conn, j, "error") = 1
        /\ Count(reqs[j].conn, j, "message_sent") = 0
        /\ StoredBy(j) = {}

\* C36: when the page handles a new_message of its chat that carries no
\* correlation id, as the gateway emits it, and whose _id an entry of the list
\* already has, the list keeps its length and every entry with another _id is
\* afterwards what it was before.
C36_DuplicateLeavesOthersAlone ==
    [][ (/\ PageReceive
         /\ inbox[PageConn][seen + 1].type = "new_message"
         /\ inbox[PageConn][seen + 1].chatId = PageChat
         /\ inbox[PageConn][seen + 1].tempId = Undefined
         /\ \E i \in 1..Len(messages) : messages[i].id = inbox[PageConn][seen + 1].msgId)
        => /\ Len(messages') = Len(messages)
           /\ \A i \in 1..Len(messages) :
                 messages[i].id # inbox[PageConn][seen + 1].msgId
                 => messages'[i] = messages[i]
      ]_vars

\* C37: when a history response is applied after the page has emitted
\* join_chat, every message the list held from a new_message is in the list
\* afterwards exactly once.
C37_ReceivedSurvivesHistory ==
    [][ (JoinEmitted /\ \E n \in 1..Len(chains), list \in FetchResults : PageFetchDone(n, list))
        => \A i \in 1..Len(messages) :
              messages[i].status = "received"
              => Cardinality({j \in 1..Len(messages') : messages'[j].id = messages[i].id}) = 1
      ]_vars

\* The page has handled a message_sent or an error that answers client event i.
Answered(i) ==
    \E k \in 1..seen :
        inbox[PageConn][k].type \in {"message_sent", "error"} /\ inbox[PageConn][k].req = i

\* The client event of the page's n-th submit in the end-to-end scenario.
ReqOfSubmit(n) == Len(InitReqsJoined) + n

\* C38: while the timer of the page's latest submit is pending and the page has
\* handled no message_sent and no error for it, the timer of an earlier submit
\* that fires leaves isSending true.
C38_EarlierTimerKeepsSending ==
    [][ \A x \in timers :
            (/\ PageTimer(x)
             /\ sent # <<>>
             /\ x # sent[Len(sent)].tempId
             /\ sent[Len(sent)].tempId \in timers
             /\ ~Answered(ReqOfSubmit(Len(sent)))
             /\ isSending)
            => isSending'
      ]_vars

\* The last room event the page has emitted.
LastEmit == pageEmits[Len(pageEmits)]

\* C39: when the socket of the mounted page becomes connected, the page emits
\* join_chat for its chat after every leave_chat of that connection change, and
\* while the mounted page is connected its last room event is join_chat.
C39_JoinLastOnConnect ==
    /\ [](chains # <<>> /\ pageConnected
            => pageEmits # <<>> /\ LastEmit = PageEmit("join_chat"))
    /\ [][ (chains # <<>> /\ ~pageConnected /\ pageConnected')
            => /\ Len(pageEmits') > Len(pageEmits)
               /\ pageEmits'[Len(pageEmits')] = PageEmit("join_chat")
               /\ \A i \in (Len(pageEmits) + 1)..(Len(pageEmits') - 1) :
                     pageEmits'[i] = PageEmit("leave_chat")
               /\ \A i \in 1..Len(pageEmits) : pageEmits'[i] = pageEmits[i]
         ]_vars

\* The socket of the mounted page has reconnected: the page emitted leave_chat
\* and then join_chat.
C39_Witness ==
    /\ chains # <<>>
    /\ pageConnected
    /\ Len(pageEmits) >= 3
    /\ LastEmit = PageEmit("join_chat")
    /\ pageEmits[Len(pageEmits) - 1] = PageEmit("leave_chat")

\* The keys of chat rooms some connection is joined to or activeChatRooms has
\* a set for; the personal channels are no chat rooms.
ChatRoomKeys ==
    (DOMAIN activeChatRooms \cup UNION {socketRooms[c] : c \in Conns})
        \ {PersonalChannel(userOf(c)) : c \in Conns}

\* C40: activeChatRooms holds no empty set, and a connection's id is in the
\* set of a chat room exactly when the connection is in the room's broadcast
\* group.
C40_ActiveChatRoomsMirrorsRooms ==
    /\ \A k \in DOMAIN activeChatRooms : activeChatRooms[k] # {}
    /\ \A c \in Conns, k \in ChatRoomKeys :
          (k \in DOMAIN activeChatRooms /\ c \in activeChatRooms[k])
              <=> k \in socketRooms[c]

\* Two connections joined room R1 and one of them left it: the set of R1
\* holds the other one only.
C40_Witness ==
    /\ \E i \in 1..Len(reqs) :
          reqs[i].kind = "leave_chat" /\ reqs[i].conn = "s1" /\ reqs[i].chatId = R1
    /\ R1 \in DOMAIN activeChatRooms
    /\ activeChatRooms[R1] = {"s2"}
    /\ R1 \notin socketRooms["s1"]
    /\ R1 \in socketRooms["s2"]

====
